---- MODULE Spec2Model ----
(***************************************************************************)
(* D-CloudX: the booking ledger (BookingService), its chain client         *)
(* (BlockchainService) and the EscrowManager contract.                     *)
(*                                                                         *)
(* Handlers of BookingService are async: every `await` is a point where    *)
(* another request may run, so a handler is a small process whose position *)
(* (pc) is kept in a request slot.  A contract call is one transaction and *)
(* is atomic.                                                              *)
(***************************************************************************)
EXTENDS Integers, Sequences, FiniteSets, TLC

VARIABLES
    bookings,       \* the bookings collection: _id -> document
    reqs,           \* in-flight BookingService requests: slot -> position and locals
    resp,           \* the response most recently sent to a caller
    escrows,        \* EscrowManager.escrows: escrowId -> Escrow
    escrowCounter,  \* EscrowManager.escrowCounter
    owner,          \* Ownable owner of EscrowManager
    payouts,        \* escrowId -> the transfers paid out for that escrow id
    releaseCalls,   \* escrowId -> BlockchainService.releaseEscrow calls issued
    refundCalls,    \* escrowId -> BlockchainService.refundEscrow calls issued
    reportCalls,    \* BlockchainService.reportSLAViolation calls issued
    analytics,      \* the analytics collection of MonitoringService
    health,         \* the ResourceHealth most recently returned
    clients,        \* MonitoringGateway: socket -> connection state
    market,         \* the ResourceMarketplace contract's storage
    users           \* the users collection: walletAddress -> reputation

vars == <<bookings, reqs, resp, escrows, escrowCounter, owner, payouts,
          releaseCalls, refundCalls, reportCalls, analytics, health, clients,
          market, users>>

\* What the handlers of BookingService other than updateMetrics, and direct
\* calls of EscrowManager, never touch.
otherVars == <<reportCalls, analytics, health, clients, market, users>>

bookingVars == <<bookings, reqs, resp, releaseCalls, refundCalls>>
chainVars == <<escrows, escrowCounter, owner, payouts>>

----------------------------------------------------------------------------
(* Bounds *)

MaxBookings == 2    \* documents in the bookings collection
MaxLive == 1        \* documents in the collection, in the lifecycle specification
MaxInFlight == 2    \* requests being handled at the same time
MaxEscrows == 2     \* escrows ever created on the contract
MaxTime == 2        \* startTime / endTime are drawn from 0..MaxTime
MaxCalls == 2       \* the call counters count up to MaxCalls ("MaxCalls or more")
MaxClients == 2     \* sockets that connect to the monitoring gateway
MaxListed == 1      \* resources listed on the ResourceMarketplace contract
MaxReviews == 2     \* reviews pushed to one booking
MaxDocs == 6        \* documents in the analytics collection

----------------------------------------------------------------------------
(* Addresses *)

Wallet == "wallet"          \* the server's signing wallet (PRIVATE_KEY)
Market == "market"          \* the ResourceMarketplace contract
Consumer == "consumer"
Provider1 == "provider1"
Provider2 == "provider2"
Stranger == "stranger"
ZeroAddress == "0x0"

Addresses == {Wallet, Market, Consumer, Provider1, Provider2, Stranger}

None == "none"    \* no string value
NoId == 0          \* no number (an absent id)

----------------------------------------------------------------------------
(* Decimal strings and wei amounts.                                        *)
(* A decimal string is [int |-> digits, frac |-> digits]; a wei amount is  *)
(* the digit sequence of a uint256 without leading zeros (<<>> is zero).   *)

Dec(i, f) == [int |-> i, frac |-> f]

RECURSIVE Zeros(_)
Zeros(n) == IF n <= 0 THEN <<>> ELSE <<0>> \o Zeros(n - 1)

RECURSIVE StripLeading(_)
StripLeading(s) ==
    IF s = <<>> THEN <<>>
    ELSE IF Head(s) = 0 THEN StripLeading(Tail(s)) ELSE s

RECURSIVE StripTrailing(_)
StripTrailing(s) ==
    IF s = <<>> THEN <<>>
    ELSE IF s[Len(s)] = 0 THEN StripTrailing(SubSeq(s, 1, Len(s) - 1)) ELSE s

EtherDecimals == 18

\* The string parsed in gwei (9 decimals) instead of ether.
ParseEther_Gwei(d) ==
    IF Len(d.frac) > 9 THEN [ok |-> FALSE, wei |-> <<>>]
    ELSE [ok |-> TRUE, wei |-> StripLeading(d.int \o d.frac \o Zeros(9 - Len(d.frac)))]

\* ethers.parseEther: the decimal string scaled by 10^18 as an integer; a
\* string with more than 18 fractional digits is rejected (ok = FALSE).
ParseEther(d) ==
    IF Len(d.frac) > EtherDecimals THEN [ok |-> FALSE, wei |-> <<>>]
    ELSE [ok |-> TRUE,
          wei |-> StripLeading(d.int \o d.frac \o Zeros(EtherDecimals - Len(d.frac)))]

\* The numeric value of a decimal string, in canonical form.
DecValue(d) == Dec(StripLeading(d.int), StripTrailing(d.frac))

\* The value in ether of a wei amount, in canonical form.
WeiValue(w) ==
    LET padded == Zeros(EtherDecimals - Len(w)) \o w
        n == Len(padded)
    IN  Dec(StripLeading(SubSeq(padded, 1, n - EtherDecimals)),
            StripTrailing(SubSeq(padded, n - EtherDecimals + 1, n)))

----------------------------------------------------------------------------
(* EscrowManager.sol.  Each function is one transaction: it yields the     *)
(* contract state after the call (Done), or Revert.                        *)

Chain == [escrows |-> escrows, escrowCounter |-> escrowCounter,
          owner |-> owner, payouts |-> payouts]

EscrowIds == 1..MaxEscrows

Escrow(id, consumer, provider, amount, duration) ==
    [id |-> id, consumer |-> consumer, provider |-> provider,
     amount |-> amount, duration |-> duration,
     isReleased |-> FALSE, isRefunded |-> FALSE]

\* A slot of the escrows mapping that was never written reads as zeroes.
ZeroEscrow == Escrow(0, ZeroAddress, ZeroAddress, <<>>, 0)

Transfer(to, amount) == [to |-> to, amount |-> amount]

Done(c) == [ok |-> TRUE, chain |-> c]
Revert == [ok |-> FALSE]

EM_createEscrow(c, sender, provider, duration, value) ==
    IF value = <<>> THEN Revert                     \* "Payment required"
    ELSE IF provider = ZeroAddress THEN Revert      \* "Invalid provider address"
    ELSE IF ~(duration > 0) THEN Revert             \* "Duration must be greater than 0"
    ELSE LET id == c.escrowCounter + 1
         IN  Done([c EXCEPT !.escrowCounter = id,
                            !.escrows[id] = Escrow(id, sender, provider, value, duration)])

\* releaseEscrow without its "Escrow already released" requirement.
EM_releaseEscrow_NoReleasedCheck(c, sender, id) ==
    LET escrow == c.escrows[id]
    IN  IF escrow.isRefunded THEN Revert
        ELSE IF ~(sender = escrow.consumer \/ sender = c.owner) THEN Revert
        ELSE Done([c EXCEPT !.escrows[id].isReleased = TRUE,
                            !.payouts[id] = Append(@, Transfer(escrow.provider,
                                                               escrow.amount))])

EM_releaseEscrow(c, sender, id) ==
    LET escrow == c.escrows[id]
    IN  IF escrow.isReleased THEN Revert            \* "Escrow already released"
        ELSE IF escrow.isRefunded THEN Revert       \* "Escrow was refunded"
        ELSE IF ~(sender = escrow.consumer \/ sender = c.owner)
             THEN Revert                            \* "Not authorized"
        ELSE Done([c EXCEPT !.escrows[id].isReleased = TRUE,
                            !.payouts[id] = Append(@, Transfer(escrow.provider,
                                                               escrow.amount))])

\* refundEscrow without its "Escrow already released" requirement.
EM_refundEscrow_NoReleasedCheck(c, sender, id) ==
    LET escrow == c.escrows[id]
    IN  IF sender # c.owner THEN Revert
        ELSE IF escrow.isRefunded THEN Revert
        ELSE Done([c EXCEPT !.escrows[id].isRefunded = TRUE,
                            !.payouts[id] = Append(@, Transfer(escrow.consumer,
                                                               escrow.amount))])


EM_refundEscrow(c, sender, id) ==
    LET escrow == c.escrows[id]
    IN  IF sender # c.owner THEN Revert             \* onlyOwner
        ELSE IF escrow.isReleased THEN Revert       \* "Escrow already released"
        ELSE IF escrow.isRefunded THEN Revert       \* "Escrow already refunded"
        ELSE Done([c EXCEPT !.escrows[id].isRefunded = TRUE,
                            !.payouts[id] = Append(@, Transfer(escrow.consumer,
                                                               escrow.amount))])

SetChain(c) ==
    /\ escrows' = c.escrows
    /\ escrowCounter' = c.escrowCounter
    /\ owner' = c.owner
    /\ payouts' = c.payouts

----------------------------------------------------------------------------
(* ResourceService: the catalog read by BookingService.create.              *)

Resources == {1, 2, 3}

\* A number that is absent (undefined in JavaScript).
Undefined == -1

\* resource.sla: resource 2 has the schema's default, {}.
ResourceSla(r) == [uptimeTarget |-> IF r = 2 THEN Undefined ELSE 99]

Resource(r) ==
    CASE r = 1 -> [provider |-> Provider1, pricePerHour |-> "0.1", isActive |-> TRUE,
                   sla |-> ResourceSla(r)]
      [] r = 2 -> [provider |-> Provider2, pricePerHour |-> "0.0001", isActive |-> TRUE,
                   sla |-> ResourceSla(r)]
      [] r = 3 -> [provider |-> Provider1, pricePerHour |-> "0.1", isActive |-> FALSE,
                   sla |-> ResourceSla(r)]

Durations == {1, 3}

\* (parseFloat(pricePerHour) * duration).toString(): the IEEE-754 double
\* product printed by JavaScript, for the prices of the catalog.
TotalCostString(pricePerHour, duration) ==
    CASE pricePerHour = "0.1" /\ duration = 1 -> Dec(<<0>>, <<1>>)
      [] pricePerHour = "0.1" /\ duration = 3 ->
            Dec(<<0>>, <<3,0,0,0,0,0,0,0,0,0,0,0,0,0,0,0,4>>)
      [] pricePerHour = "0.0001" /\ duration = 1 -> Dec(<<0>>, <<0,0,0,1>>)
      [] pricePerHour = "0.0001" /\ duration = 3 ->
            Dec(<<0>>, <<0,0,0,3,0,0,0,0,0,0,0,0,0,0,0,0,0,0,0,3>>)

----------------------------------------------------------------------------
(* BookingService                                                           *)

Statuses == {"pending", "active", "completed", "cancelled", "disputed"}

Times == 0..MaxTime

Slots == 1..MaxInFlight

Idle == [op |-> "idle", pc |-> "idle"]

\* CreateBookingDto, with the bookingId a caller of the service may add (the
\* dto class has none): resources rs, durations ds, and the windows ws.
Dtos(rs, ws, ds) ==
    {d \in [resourceId : rs, consumer : {Consumer},
            startTime : Times, endTime : Times, duration : ds,
            bookingId : {NoId, 7}] : <<d.startTime, d.endTime>> \in ws}

\* The windows over Times with startTime before endTime.
Windows == {w \in Times \X Times : w[1] < w[2]}

UnitWindow == {<<0, 1>>}

InFlight(op) == Cardinality({s \in Slots : reqs[s].op = op})

Bump(n) == IF n < MaxCalls THEN n + 1 ELSE n

Respond(op, id, outcome) == resp' = [op |-> op, outcome |-> outcome]

\* The conflict filter with closed intervals: touching windows conflict.
Conflicts_Closed(b, dto) ==
    /\ b.resourceId = dto.resourceId
    /\ b.status \in {"pending", "active"}
    /\ b.startTime <= dto.endTime
    /\ b.endTime >= dto.startTime

\* The filter of the findOne query of create.
Conflicts(b, dto) ==
    /\ b.resourceId = dto.resourceId
    /\ b.status \in {"pending", "active"}
    /\ b.startTime < dto.endTime
    /\ b.endTime > dto.startTime

ConflictingBooking(dto) == \E i \in DOMAIN bookings : Conflicts(bookings[i], dto)

\* create, up to the await of createEscrow: the resource lookup, the
\* conflict query and the cost.
\* (limit and MaxEscrows bound the requests that get past the checks.)
\* create without its "Resource is not available" check.
Create_Check_AnyResource(s, dto, limit) ==
    /\ reqs[s] = Idle
    /\ ~ConflictingBooking(dto)
          => /\ Len(bookings) + InFlight("create") < limit
             /\ escrowCounter + InFlight("create") < MaxEscrows
    /\ LET resource == Resource(dto.resourceId)
       IN  IF ConflictingBooking(dto)
           THEN /\ Respond("create", NoId, "AlreadyBooked")
                /\ UNCHANGED reqs
           ELSE /\ reqs' = [reqs EXCEPT ![s] =
                              [op |-> "create", pc |-> "escrow", dto |-> dto,
                               provider |-> resource.provider,
                               totalCost |-> TotalCostString(resource.pricePerHour,
                                                             dto.duration),
                               escrowId |-> 0]]
                /\ UNCHANGED resp
    /\ UNCHANGED <<bookings, releaseCalls, refundCalls, chainVars>>
    /\ UNCHANGED otherVars

Create_Check(s, dto, limit) ==
    /\ reqs[s] = Idle
    /\ (Resource(dto.resourceId).isActive /\ ~ConflictingBooking(dto))
          => /\ Len(bookings) + InFlight("create") < limit
             /\ escrowCounter + InFlight("create") < MaxEscrows
    /\ LET resource == Resource(dto.resourceId)
       IN  IF ~resource.isActive
           THEN /\ Respond("create", NoId, "ResourceNotAvailable")
                /\ UNCHANGED reqs
           ELSE IF ConflictingBooking(dto)
           THEN /\ Respond("create", NoId, "AlreadyBooked")
                /\ UNCHANGED reqs
           ELSE /\ reqs' = [reqs EXCEPT ![s] =
                              [op |-> "create", pc |-> "escrow", dto |-> dto,
                               provider |-> resource.provider,
                               totalCost |-> TotalCostString(resource.pricePerHour,
                                                             dto.duration),
                               escrowId |-> 0]]
                /\ UNCHANGED resp
    /\ UNCHANGED <<bookings, releaseCalls, refundCalls, chainVars>>
    /\ UNCHANGED otherVars

\* createEscrow with its failure swallowed: create goes on to save.
Create_Escrow_Swallow(s, transportOk) ==
    /\ reqs[s].op = "create" /\ reqs[s].pc = "escrow"
    /\ LET r == reqs[s]
           value == ParseEther(r.totalCost)
           after == IF ~value.ok \/ ~transportOk THEN Revert
                    ELSE EM_createEscrow(Chain, Wallet, r.provider,
                                         r.dto.duration, value.wei)
       IN  IF ~after.ok
           THEN /\ reqs' = [reqs EXCEPT ![s].pc = "save"]
                /\ UNCHANGED chainVars
           ELSE /\ SetChain(after.chain)
                /\ reqs' = [reqs EXCEPT ![s].pc = "save",
                                        ![s].escrowId = after.chain.escrowCounter]
    /\ UNCHANGED <<resp, bookings, releaseCalls, refundCalls>>
    /\ UNCHANGED otherVars

\* BlockchainService.createEscrow, called by create.  transportOk = FALSE is
\* a failure of the RPC call or of the receipt.
Create_Escrow(s, transportOk) ==
    /\ reqs[s].op = "create" /\ reqs[s].pc = "escrow"
    /\ LET r == reqs[s]
           value == ParseEther(r.totalCost)
           after == IF ~value.ok \/ ~transportOk THEN Revert
                    ELSE EM_createEscrow(Chain, Wallet, r.provider,
                                         r.dto.duration, value.wei)
       IN  IF ~after.ok
           THEN /\ Respond("create", NoId, "UpstreamFailure")
                /\ reqs' = [reqs EXCEPT ![s] = Idle]
                /\ UNCHANGED chainVars
           ELSE /\ SetChain(after.chain)
                /\ reqs' = [reqs EXCEPT ![s].pc = "save",
                                        ![s].escrowId = after.chain.escrowCounter]
                /\ UNCHANGED resp
    /\ UNCHANGED <<bookings, releaseCalls, refundCalls>>
    /\ UNCHANGED otherVars

\* A metrics snapshot as the caller hands it over (metrics: any): the fields
\* of BookingMetricsDto and the time the source took the sample, if given.
MetricsAt(cpuUsage, ramUsage, uptime, timestamp) ==
    [cpuUsage |-> cpuUsage, ramUsage |-> ramUsage, uptime |-> uptime,
     timestamp |-> timestamp]

\* A snapshot without a sample time; the schema's default is {}.
Metrics(cpuUsage, ramUsage, uptime) == MetricsAt(cpuUsage, ramUsage, uptime, Undefined)

NoMetrics == Metrics(Undefined, Undefined, Undefined)

\* cancellationTime and completionTime: null, the schema's default, or the
\* Date of the write that set them.
NullDate == "null"
NewDate == "date"

\* sla.violations is absent until the first $inc, which counts from 0.
NewBooking(r) ==
    [bookingId |-> r.dto.bookingId, resourceId |-> r.dto.resourceId,
     consumer |-> r.dto.consumer, provider |-> r.provider,
     startTime |-> r.dto.startTime, endTime |-> r.dto.endTime,
     duration |-> r.dto.duration, totalCost |-> r.totalCost,
     escrowId |-> r.escrowId, status |-> "pending",
     metrics |-> NoMetrics, reviews |-> <<>>,
     cancellationTime |-> NullDate, completionTime |-> NullDate,
     sla |-> [uptimeTarget |-> Resource(r.dto.resourceId).sla.uptimeTarget,
              violations |-> 0]]

\* booking.save(): schema validation (bookingId is required), then the insert.
Create_Save(s) ==
    /\ reqs[s].op = "create" /\ reqs[s].pc = "save"
    /\ IF reqs[s].dto.bookingId = NoId
       THEN /\ Respond("create", NoId, "ValidationError")
            /\ UNCHANGED bookings
       ELSE /\ bookings' = Append(bookings, NewBooking(reqs[s]))
            /\ Respond("create", Len(bookings) + 1, "ok")
    /\ reqs' = [reqs EXCEPT ![s] = Idle]
    /\ UNCHANGED <<releaseCalls, refundCalls, chainVars>>
    /\ UNCHANGED otherVars

\* findById / findByIdAndUpdate find a document exactly when the id is one
\* of the collection.
Exists(id) == id \in DOMAIN bookings

\* The ids a caller may name: those of the collection and one that is not.
RequestIds == 1..(MaxBookings + 1)

\* updateStatus without the check of what findByIdAndUpdate returned: for an
\* id without a booking it returns null, or fails reading booking.escrowId.
UpdateStatus_Write_NoNullCheck(s, op, id, status) ==
    IF ~Exists(id)
    THEN /\ IF status \in {"completed", "cancelled"}
            THEN Respond(op, id, "TypeError")
            ELSE Respond(op, id, "ok")
         /\ reqs' = [reqs EXCEPT ![s] = Idle]
         /\ UNCHANGED bookings
    ELSE /\ bookings' = [bookings EXCEPT
                            ![id].status = status,
                            ![id].cancellationTime =
                                IF status = "cancelled" THEN NewDate ELSE @,
                            ![id].completionTime =
                                IF status = "completed" THEN NewDate ELSE @]
         /\ IF status \in {"completed", "cancelled"}
            THEN /\ reqs' = [reqs EXCEPT ![s] =
                               [op |-> op, pc |-> "chain", id |-> id,
                                status |-> status,
                                escrowId |-> bookings[id].escrowId]]
                 /\ UNCHANGED resp
            ELSE /\ reqs' = [reqs EXCEPT ![s] = Idle]
                 /\ Respond(op, id, "ok")

\* updateStatus(id, status), entered from the controller: findByIdAndUpdate
\* writes the requested status, whatever the current one is, and the time of
\* a cancellation or completion.
UpdateStatus_Write(s, op, id, status) ==
    IF ~Exists(id)
    THEN /\ Respond(op, id, "NotFound")
         /\ reqs' = [reqs EXCEPT ![s] = Idle]
         /\ UNCHANGED bookings
    ELSE /\ bookings' = [bookings EXCEPT
                            ![id].status = status,
                            ![id].cancellationTime =
                                IF status = "cancelled" THEN NewDate ELSE @,
                            ![id].completionTime =
                                IF status = "completed" THEN NewDate ELSE @]
         /\ IF status \in {"completed", "cancelled"}
            THEN /\ reqs' = [reqs EXCEPT ![s] =
                               [op |-> op, pc |-> "chain", id |-> id,
                                status |-> status,
                                escrowId |-> bookings[id].escrowId]]
                 /\ UNCHANGED resp
            ELSE /\ reqs' = [reqs EXCEPT ![s] = Idle]
                 /\ Respond(op, id, "ok")

UpdateStatus_Start(s, id, status) ==
    /\ reqs[s] = Idle
    /\ UpdateStatus_Write(s, "updateStatus", id, status)
    /\ UNCHANGED <<releaseCalls, refundCalls, chainVars>>
    /\ UNCHANGED otherVars

\* The findByIdAndUpdate of an updateStatus called by cancelBooking or
\* completeBooking, after the await of their findById.
UpdateStatus_Inner(s) ==
    /\ reqs[s].op \in {"cancelBooking", "completeBooking"}
    /\ reqs[s].pc = "update"
    /\ UpdateStatus_Write(s, reqs[s].op, reqs[s].id, reqs[s].status)
    /\ UNCHANGED <<releaseCalls, refundCalls, chainVars>>
    /\ UNCHANGED otherVars

\* BlockchainService.releaseEscrow / refundEscrow, called by updateStatus
\* after the status is written.
UpdateStatus_Chain(s, transportOk) ==
    /\ reqs[s].op \in {"updateStatus", "cancelBooking", "completeBooking"}
    /\ reqs[s].pc = "chain"
    /\ LET r == reqs[s]
           after == IF ~transportOk THEN Revert
                    ELSE IF r.status = "completed"
                         THEN EM_releaseEscrow(Chain, Wallet, r.escrowId)
                         ELSE EM_refundEscrow(Chain, Wallet, r.escrowId)
       IN  /\ IF r.status = "completed"
              THEN /\ releaseCalls' = [releaseCalls EXCEPT ![r.escrowId] = Bump(@)]
                   /\ UNCHANGED refundCalls
              ELSE /\ refundCalls' = [refundCalls EXCEPT ![r.escrowId] = Bump(@)]
                   /\ UNCHANGED releaseCalls
           /\ IF ~after.ok
              THEN /\ Respond(r.op, r.id, "UpstreamFailure")
                   /\ UNCHANGED chainVars
              ELSE /\ Respond(r.op, r.id, "ok")
                   /\ SetChain(after.chain)
    /\ reqs' = [reqs EXCEPT ![s] = Idle]
    /\ UNCHANGED bookings
    /\ UNCHANGED otherVars

\* cancelBooking without the check of the booking's status.
CancelBooking_Check_NoStatus(s, id, cancelledBy) ==
    /\ reqs[s] = Idle
    /\ IF ~Exists(id)
       THEN /\ Respond("cancelBooking", id, "NotFound")
            /\ UNCHANGED reqs
       ELSE IF cancelledBy # bookings[id].consumer /\ cancelledBy # bookings[id].provider
       THEN /\ Respond("cancelBooking", id, "NotAuthorized")
            /\ UNCHANGED reqs
       ELSE /\ reqs' = [reqs EXCEPT ![s] =
                          [op |-> "cancelBooking", pc |-> "update", id |-> id,
                           status |-> "cancelled", escrowId |-> 0]]
            /\ UNCHANGED resp
    /\ UNCHANGED <<bookings, releaseCalls, refundCalls, chainVars>>
    /\ UNCHANGED otherVars

\* cancelBooking without the check of who cancels.
CancelBooking_Check_NoAuth(s, id, cancelledBy) ==
    /\ reqs[s] = Idle
    /\ IF ~Exists(id)
       THEN /\ Respond("cancelBooking", id, "NotFound")
            /\ UNCHANGED reqs
       ELSE IF bookings[id].status # "pending" /\ bookings[id].status # "active"
       THEN /\ Respond("cancelBooking", id, "CannotBeCancelled")
            /\ UNCHANGED reqs
       ELSE /\ reqs' = [reqs EXCEPT ![s] =
                          [op |-> "cancelBooking", pc |-> "update", id |-> id,
                           status |-> "cancelled", escrowId |-> 0]]
            /\ UNCHANGED resp
    /\ UNCHANGED <<bookings, releaseCalls, refundCalls, chainVars>>
    /\ UNCHANGED otherVars

\* cancelBooking, up to the await of updateStatus.
CancelBooking_Check(s, id, cancelledBy) ==
    /\ reqs[s] = Idle
    /\ IF ~Exists(id)
       THEN /\ Respond("cancelBooking", id, "NotFound")
            /\ UNCHANGED reqs
       ELSE IF bookings[id].status # "pending" /\ bookings[id].status # "active"
       THEN /\ Respond("cancelBooking", id, "CannotBeCancelled")
            /\ UNCHANGED reqs
       ELSE IF cancelledBy # bookings[id].consumer /\ cancelledBy # bookings[id].provider
       THEN /\ Respond("cancelBooking", id, "NotAuthorized")
            /\ UNCHANGED reqs
       ELSE /\ reqs' = [reqs EXCEPT ![s] =
                          [op |-> "cancelBooking", pc |-> "update", id |-> id,
                           status |-> "cancelled", escrowId |-> 0]]
            /\ UNCHANGED resp
    /\ UNCHANGED <<bookings, releaseCalls, refundCalls, chainVars>>
    /\ UNCHANGED otherVars

\* completeBooking that takes a pending booking too.
CompleteBooking_Check_Pending(s, id) ==
    /\ reqs[s] = Idle
    /\ IF ~Exists(id)
       THEN /\ Respond("completeBooking", id, "NotFound")
            /\ UNCHANGED reqs
       ELSE IF bookings[id].status # "active" /\ bookings[id].status # "pending"
       THEN /\ Respond("completeBooking", id, "NotActive")
            /\ UNCHANGED reqs
       ELSE /\ reqs' = [reqs EXCEPT ![s] =
                          [op |-> "completeBooking", pc |-> "update", id |-> id,
                           status |-> "completed", escrowId |-> 0]]
            /\ UNCHANGED resp
    /\ UNCHANGED <<bookings, releaseCalls, refundCalls, chainVars>>
    /\ UNCHANGED otherVars

\* completeBooking, up to the await of updateStatus.
CompleteBooking_Check(s, id) ==
    /\ reqs[s] = Idle
    /\ IF ~Exists(id)
       THEN /\ Respond("completeBooking", id, "NotFound")
            /\ UNCHANGED reqs
       ELSE IF bookings[id].status # "active"
       THEN /\ Respond("completeBooking", id, "NotActive")
            /\ UNCHANGED reqs
       ELSE /\ reqs' = [reqs EXCEPT ![s] =
                          [op |-> "completeBooking", pc |-> "update", id |-> id,
                           status |-> "completed", escrowId |-> 0]]
            /\ UNCHANGED resp
    /\ UNCHANGED <<bookings, releaseCalls, refundCalls, chainVars>>
    /\ UNCHANGED otherVars

\* update(id, dto) with a status in the dto: one findByIdAndUpdate.
\* update with a dto that also carries an escrowId, here 0.
Update_WithEscrowId(s, id, status) ==
    /\ reqs[s] = Idle
    /\ IF ~Exists(id)
       THEN /\ Respond("update", id, "NotFound")
            /\ UNCHANGED bookings
       ELSE /\ bookings' = [bookings EXCEPT ![id].status = status, ![id].escrowId = 0]
            /\ Respond("update", id, "ok")
    /\ UNCHANGED <<reqs, releaseCalls, refundCalls, chainVars>>
    /\ UNCHANGED otherVars

\* update with a dto that carries a status and none of the other fields of
\* UpdateBookingDto: the status is written and nothing else.
Update(s, id, status) ==
    /\ reqs[s] = Idle
    /\ IF ~Exists(id)
       THEN /\ Respond("update", id, "NotFound")
            /\ UNCHANGED bookings
       ELSE /\ bookings' = [bookings EXCEPT ![id].status = status]
            /\ Respond("update", id, "ok")
    /\ UNCHANGED <<reqs, releaseCalls, refundCalls, chainVars>>
    /\ UNCHANGED otherVars

\* The wallets that may have a document in the users collection; a wallet
\* without one has reputation Undefined.
UserWallets == {Provider1, Provider2}

DefaultReputation == 100
MinReputation == 0
MaxReputation == 1000

\* UserService.create for a new wallet, email and username; a wallet that
\* has a document is answered with ConflictException.
User_Create(walletAddress) ==
    /\ IF users[walletAddress] # Undefined
       THEN /\ Respond("createUser", NoId, "Conflict")
            /\ UNCHANGED users
       ELSE /\ users' = [users EXCEPT ![walletAddress] = DefaultReputation]
            /\ Respond("createUser", NoId, "ok")
    /\ UNCHANGED <<bookings, reqs, releaseCalls, refundCalls, chainVars,
                   reportCalls, analytics, health, clients, market>>

\* updateReputation without Math.max and Math.min.
UpdateReputation_NoClamp(reputation, change) == reputation + change

Clamp(x) ==
    IF x < MinReputation THEN MinReputation
    ELSE IF x > MaxReputation THEN MaxReputation ELSE x

\* UserService.updateReputation on the document of walletAddress.
UpdateReputation(reputation, change) == Clamp(reputation + change)

\* PUT users/reputation: UserService.updateReputation with the change of the
\* request body, for a wallet with or without a document.
User_UpdateReputation(walletAddress, change) ==
    /\ IF users[walletAddress] = Undefined
       THEN /\ Respond("updateReputation", NoId, "UserNotFound")
            /\ UNCHANGED users
       ELSE /\ users' = [users EXCEPT ![walletAddress] = UpdateReputation(@, change)]
            /\ Respond("updateReputation", NoId, "ok")
    /\ UNCHANGED <<bookings, reqs, releaseCalls, refundCalls, chainVars,
                   reportCalls, analytics, health, clients, market>>

Ratings == 1..5

\* addReview: the $push of the review.
AddReview_Write(s, id, rating) ==
    /\ reqs[s] = Idle
    /\ IF ~Exists(id)
       THEN /\ Respond("addReview", id, "NotFound")
            /\ UNCHANGED <<reqs, bookings>>
       ELSE /\ Len(bookings[id].reviews) < MaxReviews
            /\ bookings' = [bookings EXCEPT ![id].reviews =
                                Append(@, [reviewer |-> bookings[id].consumer,
                                           rating |-> rating])]
            /\ reqs' = [reqs EXCEPT ![s] =
                           [op |-> "addReview", pc |-> "reputation", id |-> id,
                            provider |-> bookings[id].provider, rating |-> rating]]
            /\ UNCHANGED resp
    /\ UNCHANGED <<releaseCalls, refundCalls, chainVars>>
    /\ UNCHANGED otherVars

\* addReview: the awaited userService.updateReputation of the provider, which
\* throws NotFoundException when the provider has no user document.
AddReview_Reputation(s) ==
    /\ reqs[s].op = "addReview" /\ reqs[s].pc = "reputation"
    /\ LET r == reqs[s]
       IN  IF users[r.provider] = Undefined
           THEN /\ Respond("addReview", r.id, "UserNotFound")
                /\ UNCHANGED users
           ELSE /\ users' = [users EXCEPT ![r.provider] =
                                UpdateReputation(@, (r.rating - 3) * 10)]
                /\ Respond("addReview", r.id, "ok")
    /\ reqs' = [reqs EXCEPT ![s] = Idle]
    /\ UNCHANGED <<bookings, releaseCalls, refundCalls, chainVars,
                   reportCalls, analytics, health, clients, market>>

\* a < b and a > b of JavaScript on numbers that may be undefined: a
\* comparison with undefined is false.
JsLess(a, b) == a # Undefined /\ b # Undefined /\ a < b
JsGreater(a, b) == a # Undefined /\ b # Undefined /\ a > b

\* checkSLACompliance with "High CPU usage" from 90 on.
CheckSLACompliance_CpuFrom90(booking) ==
    LET metrics == booking.metrics
        sla == booking.sla
    IN  (IF JsLess(metrics.uptime, sla.uptimeTarget)
         THEN <<"Uptime below target">> ELSE <<>>)
        \o (IF metrics.cpuUsage # Undefined /\ metrics.cpuUsage >= 90
            THEN <<"High CPU usage">> ELSE <<>>)
        \o (IF JsGreater(metrics.ramUsage, 90) THEN <<"High RAM usage">> ELSE <<>>)

\* checkSLACompliance: the list of violations of a booking's snapshot.
CheckSLACompliance(booking) ==
    LET metrics == booking.metrics
        sla == booking.sla
    IN  (IF JsLess(metrics.uptime, sla.uptimeTarget)
         THEN <<"Uptime below target">> ELSE <<>>)
        \o (IF JsGreater(metrics.cpuUsage, 90) THEN <<"High CPU usage">> ELSE <<>>)
        \o (IF JsGreater(metrics.ramUsage, 90) THEN <<"High RAM usage">> ELSE <<>>)

\* updateMetrics, up to the first await of checkSLACompliance: the
\* findByIdAndUpdate that overwrites the snapshot, and the list of violations
\* of the document it returns.
\* (MaxCalls bounds the requests that go on to report.)
UpdateMetrics_Write(s, id, metrics) ==
    /\ reqs[s] = Idle
    /\ IF ~Exists(id)
       THEN /\ Respond("updateMetrics", id, "NotFound")
            /\ UNCHANGED <<reqs, bookings>>
       ELSE LET booking == [bookings[id] EXCEPT !.metrics = metrics]
                violations == CheckSLACompliance(booking)
            IN  /\ Len(violations) > 0
                      => reportCalls + InFlight("updateMetrics") < MaxCalls
                /\ bookings' = [bookings EXCEPT ![id] = booking]
                /\ IF Len(violations) > 0
                   THEN /\ reqs' = [reqs EXCEPT ![s] =
                                      [op |-> "updateMetrics", pc |-> "inc", id |-> id,
                                       violations |-> violations]]
                        /\ UNCHANGED resp
                   ELSE /\ Respond("updateMetrics", id, "ok")
                        /\ UNCHANGED reqs
    /\ UNCHANGED <<releaseCalls, refundCalls, reportCalls, chainVars,
                   analytics, health, clients, market, users>>

\* checkSLACompliance with a $set of sla.violations to the length of the list.
UpdateMetrics_Inc_Set(s) ==
    /\ reqs[s].op = "updateMetrics" /\ reqs[s].pc = "inc"
    /\ bookings' = [bookings EXCEPT ![reqs[s].id].sla.violations =
                                        Len(reqs[s].violations)]
    /\ reqs' = [reqs EXCEPT ![s].pc = "report"]
    /\ UNCHANGED <<resp, releaseCalls, refundCalls, reportCalls, chainVars,
                   analytics, health, clients, market, users>>

\* checkSLACompliance: the $inc of sla.violations.
UpdateMetrics_Inc(s) ==
    /\ reqs[s].op = "updateMetrics" /\ reqs[s].pc = "inc"
    /\ bookings' = [bookings EXCEPT ![reqs[s].id].sla.violations =
                                        @ + Len(reqs[s].violations)]
    /\ reqs' = [reqs EXCEPT ![s].pc = "report"]
    /\ UNCHANGED <<resp, releaseCalls, refundCalls, reportCalls, chainVars,
                   analytics, health, clients, market, users>>

\* checkSLACompliance: the awaited BlockchainService.reportSLAViolation sends
\* the recordViolation transaction; a failure to send it is rethrown.
UpdateMetrics_Report(s, transportOk) ==
    /\ reqs[s].op = "updateMetrics" /\ reqs[s].pc = "report"
    /\ reportCalls' = Bump(reportCalls)
    /\ IF transportOk
       THEN /\ reqs' = [reqs EXCEPT ![s].pc = "wait"]
            /\ UNCHANGED resp
       ELSE /\ Respond("updateMetrics", reqs[s].id, "UpstreamFailure")
            /\ reqs' = [reqs EXCEPT ![s] = Idle]
    /\ UNCHANGED <<bookings, releaseCalls, refundCalls, chainVars,
                   analytics, health, clients, market, users>>

\* reportSLAViolation: the awaited tx.wait() settles, with the receipt
\* (mined) or with an error, which is rethrown; updateMetrics returns only then.
UpdateMetrics_Confirm(s, mined) ==
    /\ reqs[s].op = "updateMetrics" /\ reqs[s].pc = "wait"
    /\ IF mined
       THEN Respond("updateMetrics", reqs[s].id, "ok")
       ELSE Respond("updateMetrics", reqs[s].id, "UpstreamFailure")
    /\ reqs' = [reqs EXCEPT ![s] = Idle]
    /\ UNCHANGED <<bookings, releaseCalls, refundCalls, chainVars, reportCalls,
                   analytics, health, clients, market, users>>

----------------------------------------------------------------------------
(* MonitoringService.  Its documents (metrics samples and alerts) are kept  *)
(* in one collection, in the order of their timestamps.                     *)

\* alertThresholds
CpuWarning == 80
CpuCritical == 95
MemoryWarning == 85
MemoryCritical == 95
AvailabilityWarning == 99
AvailabilityCritical == 95
DiskWarning == 90
DiskCritical == 95

\* getResourceHealth reads the 10 newest documents of the resource.
RecentLimit == 10

\* determineStatus
HealthyFrom == 80
WarningFrom == 60
CriticalFrom == 20

\* MonitoringMetrics, the fields the service reads.
Sample(cpu, memory, disk, availability) ==
    [cpuUsage |-> cpu, memoryUsage |-> memory, diskUsage |-> disk,
     availability |-> availability]

MetricsDoc(resourceId, m) == [resourceId |-> resourceId, type |-> "metrics", data |-> m]

\* createAlert: the stored document of a new alert.
AlertDoc(id, alert) ==
    [resourceId |-> alert.resourceId, type |-> "alert",
     data |-> [id |-> id, type |-> alert.type, severity |-> alert.severity,
               metric |-> alert.metric, resolved |-> alert.resolved]]

\* An alert that is born resolved.
NewAlert_Resolved(resourceId, type, severity, metric) ==
    [resourceId |-> resourceId, type |-> type, severity |-> severity,
     metric |-> metric, resolved |-> TRUE]

NewAlert(resourceId, type, severity, metric) ==
    [resourceId |-> resourceId, type |-> type, severity |-> severity,
     metric |-> metric, resolved |-> FALSE]

\* checkAlerts without the alert on memory.
CheckAlerts_NoMemory(resourceId, m) ==
    (IF m.cpuUsage >= CpuCritical
     THEN <<NewAlert(resourceId, "performance", "critical", "cpu")>>
     ELSE IF m.cpuUsage >= CpuWarning
     THEN <<NewAlert(resourceId, "performance", "warning", "cpu")>>
     ELSE <<>>)
    \o (IF m.availability < AvailabilityCritical
        THEN <<NewAlert(resourceId, "availability", "critical", "availability")>>
        ELSE IF m.availability < AvailabilityWarning
        THEN <<NewAlert(resourceId, "availability", "warning", "availability")>>
        ELSE <<>>)

\* checkAlerts: the alerts of one sample, in the order they are created.
CheckAlerts(resourceId, m) ==
    (IF m.cpuUsage >= CpuCritical
     THEN <<NewAlert(resourceId, "performance", "critical", "cpu")>>
     ELSE IF m.cpuUsage >= CpuWarning
     THEN <<NewAlert(resourceId, "performance", "warning", "cpu")>>
     ELSE <<>>)
    \o (IF m.memoryUsage >= MemoryCritical
        THEN <<NewAlert(resourceId, "performance", "critical", "memory")>>
        ELSE IF m.memoryUsage >= MemoryWarning
        THEN <<NewAlert(resourceId, "performance", "warning", "memory")>>
        ELSE <<>>)
    \o (IF m.availability < AvailabilityCritical
        THEN <<NewAlert(resourceId, "availability", "critical", "availability")>>
        ELSE IF m.availability < AvailabilityWarning
        THEN <<NewAlert(resourceId, "availability", "warning", "availability")>>
        ELSE <<>>)

\* find({ resourceId }).sort({ timestamp: -1 }).limit(10): the newest documents
\* of the resource, samples and alerts alike.
RecentMetrics(resourceId) ==
    LET docs == SelectSeq(analytics, LAMBDA d : d.resourceId = resourceId)
        n == Len(docs)
    IN  IF n <= RecentLimit THEN docs ELSE SubSeq(docs, n - RecentLimit + 1, n)

\* metric.data[field] || 0
FieldOrZero(doc, field) ==
    IF field \in DOMAIN doc.data THEN doc.data[field] ELSE 0

RECURSIVE SumField(_, _)
SumField(metrics, field) ==
    IF metrics = <<>> THEN 0
    ELSE FieldOrZero(Head(metrics), field) + SumField(Tail(metrics), field)

\* A score is kept as the fraction num / den; an average of n documents is
\* its sum over n, so the score of n documents has den = 4 * n.
Score(num, den) == [num |-> num, den |-> den]

Max0(x) == IF x > 0 THEN x ELSE 0

\* calculateHealthScore that adds the four scores and does not divide by 4.
CalculateHealthScore_Sum(metrics) ==
    LET n == Len(metrics)
    IN  IF n = 0 THEN Score(0, 1)
        ELSE Score(Max0(100 * n - SumField(metrics, "cpuUsage"))
                     + Max0(100 * n - SumField(metrics, "memoryUsage"))
                     + Max0(100 * n - SumField(metrics, "diskUsage"))
                     + SumField(metrics, "availability"),
                   n)

CalculateHealthScore(metrics) ==
    LET n == Len(metrics)
    IN  IF n = 0 THEN Score(0, 1)
        ELSE Score(Max0(100 * n - SumField(metrics, "cpuUsage"))
                     + Max0(100 * n - SumField(metrics, "memoryUsage"))
                     + Max0(100 * n - SumField(metrics, "diskUsage"))
                     + SumField(metrics, "availability"),
                   4 * n)

\* determineStatus with a score of exactly 80 not yet healthy.
DetermineStatus_Above80(healthScore) ==
    IF healthScore.num > HealthyFrom * healthScore.den THEN "healthy"
    ELSE IF healthScore.num >= WarningFrom * healthScore.den THEN "warning"
    ELSE IF healthScore.num >= CriticalFrom * healthScore.den THEN "critical"
    ELSE "offline"

DetermineStatus(healthScore) ==
    IF healthScore.num >= HealthyFrom * healthScore.den THEN "healthy"
    ELSE IF healthScore.num >= WarningFrom * healthScore.den THEN "warning"
    ELSE IF healthScore.num >= CriticalFrom * healthScore.den THEN "critical"
    ELSE "offline"

NoHealth == [resourceId |-> NoId, status |-> None, score |-> Score(0, 1)]

\* What MonitoringService never touches.
nonMonitorVars == <<bookings, reqs, escrows, escrowCounter, owner, payouts,
                    releaseCalls, refundCalls, reportCalls, clients, market, users>>

\* collectMetrics for a sample m (the source draws it at random): storeMetrics,
\* then checkAlerts with one createAlert per alert.  generateAlertId yields a
\* fresh id, here the position the alert's document gets.
\* (MaxDocs bounds the collection.)
CollectMetrics(resourceId, m) ==
    LET alerts == CheckAlerts(resourceId, m)
        n == Len(analytics)
    IN  /\ n + 1 + Len(alerts) <= MaxDocs
        /\ analytics' = analytics \o <<MetricsDoc(resourceId, m)>>
                            \o [k \in 1..Len(alerts) |-> AlertDoc(n + 1 + k, alerts[k])]
        /\ Respond("collectMetrics", NoId, "ok")
        /\ UNCHANGED <<health, nonMonitorVars>>

\* resolveAlert without its filter on the alert's id.
ResolveAlert_AnyAlert(alertId) ==
    LET matching == {i \in DOMAIN analytics : analytics[i].type = "alert"}
    IN  /\ IF matching = {}
           THEN UNCHANGED analytics
           ELSE LET i == CHOOSE j \in matching : \A k \in matching : j <= k
                IN  analytics' = [analytics EXCEPT ![i].data.resolved =
                                                      ~analytics[i].data.resolved]
        /\ Respond("resolveAlert", NoId, "ok")
        /\ UNCHANGED <<health, nonMonitorVars>>

\* resolveAlert: updateOne sets data.resolved on the first alert document
\* with the id, and matches nothing without an error when there is none.
ResolveAlert(alertId) ==
    LET matching == {i \in DOMAIN analytics :
                        analytics[i].type = "alert" /\ analytics[i].data.id = alertId}
    IN  /\ IF matching = {}
           THEN UNCHANGED analytics
           ELSE LET i == CHOOSE j \in matching : \A k \in matching : j <= k
                IN  analytics' = [analytics EXCEPT ![i].data.resolved = TRUE]
        /\ Respond("resolveAlert", NoId, "ok")
        /\ UNCHANGED <<health, nonMonitorVars>>

\* The collection after collectMetrics(resourceId, m).
AfterCollect(resourceId, m) ==
    LET alerts == CheckAlerts(resourceId, m)
        n == Len(analytics)
    IN  analytics \o <<MetricsDoc(resourceId, m)>>
           \o [k \in 1..Len(alerts) |-> AlertDoc(n + 1 + k, alerts[k])]

\* getResourceHealth: an error for a resource that does not exist, else the
\* score and status of the resource's recent documents.
GetResourceHealth(resourceId) ==
    /\ IF resourceId \notin Resources
       THEN /\ Respond("getResourceHealth", NoId, "NotFound")
            /\ UNCHANGED health
       ELSE LET recentMetrics == RecentMetrics(resourceId)
                healthScore == CalculateHealthScore(recentMetrics)
            IN  /\ health' = IF Len(recentMetrics) = 0
                             THEN [resourceId |-> resourceId, status |-> "offline",
                                   score |-> Score(0, 1)]
                             ELSE [resourceId |-> resourceId,
                                   status |-> DetermineStatus(healthScore),
                                   score |-> healthScore]
                /\ Respond("getResourceHealth", NoId, "ok")
    /\ UNCHANGED <<analytics, nonMonitorVars>>

----------------------------------------------------------------------------
(* MonitoringGateway: one socket per client.  A socket has the userId the   *)
(* gateway gave it, the rooms it joined and the events emitted to it.       *)

ClientIds == 1..MaxClients

\* The handshake of a connection: no token, a token that does not verify, a
\* token that verifies, and one that verifies and has no sub claim.
Tokens == {"none", "invalid", "valid", "validNoSub"}

NewClient == [state |-> "new", userId |-> None, rooms |-> {}, received |-> {}]

Emit(client, event) == [client EXCEPT !.received = @ \cup {event}]

Join(client, room) == [client EXCEPT !.rooms = @ \cup {room}]

\* client.disconnect()
Disconnect(client) == [client EXCEPT !.state = "disconnected", !.rooms = {}]

\* What MonitoringGateway never touches (the collection aside).
nonGatewayVars == <<bookings, reqs, resp, escrows, escrowCounter, owner, payouts,
                    releaseCalls, refundCalls, reportCalls, health, market, users>>

\* handleConnection.  overviewOk = FALSE is a failure of getSystemOverview.
Gateway_HandleConnection(c, token, overviewOk) ==
    /\ clients[c].state = "new"
    /\ clients' = [clients EXCEPT ![c] =
          IF token = "none" \/ token = "invalid"
          THEN Disconnect(@)
          ELSE LET authed == [@ EXCEPT !.state = "connected",
                                       !.userId = IF token = "valid" THEN "user"
                                                  ELSE None]
               IN  IF overviewOk THEN Emit(authed, "system:overview")
                   ELSE Disconnect(authed)]
    /\ UNCHANGED <<analytics, nonGatewayVars>>

\* subscribe:resource
Gateway_HandleResourceSubscription(c, resourceId) ==
    /\ clients[c].state = "connected"
    /\ clients' = [clients EXCEPT ![c] =
          IF @.userId = None THEN Emit(@, "error")
          ELSE IF resourceId \notin Resources
          THEN Emit(Join(@, <<"resource", resourceId>>), "error")
          ELSE Emit(Join(@, <<"resource", resourceId>>), "resource:health")]
    /\ UNCHANGED <<analytics, nonGatewayVars>>

\* subscribe:alerts
Gateway_HandleAlertsSubscription(c) ==
    /\ clients[c].state = "connected"
    /\ clients' = [clients EXCEPT ![c] =
          IF @.userId = None THEN Emit(@, "error")
          ELSE Emit(Join(@, <<"alerts", @.userId>>), "alerts:list")]
    /\ UNCHANGED <<analytics, nonGatewayVars>>

\* request:metrics
Gateway_HandleMetricsRequest(c, resourceId, m) ==
    /\ clients[c].state = "connected"
    /\ IF clients[c].userId = None
       THEN /\ clients' = [clients EXCEPT ![c] = Emit(@, "error")]
            /\ UNCHANGED analytics
       ELSE /\ Len(AfterCollect(resourceId, m)) <= MaxDocs
            /\ analytics' = AfterCollect(resourceId, m)
            /\ clients' = [clients EXCEPT ![c] = Emit(@, "metrics:data")]
    /\ UNCHANGED nonGatewayVars

\* broadcastAlert: server.emit reaches every connected socket.
Gateway_BroadcastAlert ==
    /\ clients' = [c \in ClientIds |->
                      IF clients[c].state = "connected"
                      THEN Emit(clients[c], "alert:new") ELSE clients[c]]
    /\ UNCHANGED <<analytics, nonGatewayVars>>

----------------------------------------------------------------------------
(* ResourceMarketplace.sol.  Each function is one transaction on the        *)
(* storage of the marketplace and of the EscrowManager it calls: it yields  *)
(* both after the call and the events emitted (Did), or Revert.  The       *)
(* arithmetic of libraries/SafeMath.sol is checked arithmetic; the amounts *)
(* below stay far from 2^256.                                              *)

MarketResourceIds == 1..MaxListed

\* A uint256 as the digit sequence EscrowManager's amounts are written in.
RECURSIVE Uint(_)
Uint(n) == IF n = 0 THEN <<>> ELSE Uint(n \div 10) \o <<n % 10>>

MarketResource(id, provider, cpu, ram, storage, pricePerHour) ==
    [id |-> id, provider |-> provider, cpu |-> cpu, ram |-> ram,
     storage |-> storage, pricePerHour |-> pricePerHour, isActive |-> TRUE,
     reputation |-> 100]

\* A slot of the resources mapping that was never written reads as zeroes.
ZeroResource ==
    [id |-> 0, provider |-> ZeroAddress, cpu |-> 0, ram |-> 0, storage |-> 0,
     pricePerHour |-> 0, isActive |-> FALSE, reputation |-> 0]

MarketBooking(resourceId, consumer, duration, escrowId) ==
    [resourceId |-> resourceId, consumer |-> consumer, duration |-> duration,
     escrowId |-> escrowId, isActive |-> TRUE]

ZeroBooking ==
    [resourceId |-> 0, consumer |-> ZeroAddress, duration |-> 0,
     escrowId |-> 0, isActive |-> FALSE]

\* The contract as constructed: its owner is the deployer.
NewMarket ==
    [resources |-> [i \in MarketResourceIds |-> ZeroResource],
     bookings |-> [i \in EscrowIds |-> ZeroBooking],
     resourceCounter |-> 0, bookingCounter |-> 0, platformFee |-> 25,
     owner |-> Wallet, events |-> {}]

Event(name, id) == [name |-> name, id |-> id]

Did(m, c, event) ==
    [ok |-> TRUE, market |-> [m EXCEPT !.events = @ \cup {event}], chain |-> c]

RM_listResource(m, c, sender, cpu, ram, storage, pricePerHour) ==
    IF ~(cpu > 0) THEN Revert                   \* "CPU must be greater than 0"
    ELSE IF ~(ram > 0) THEN Revert              \* "RAM must be greater than 0"
    ELSE IF ~(storage > 0) THEN Revert          \* "Storage must be greater than 0"
    ELSE IF ~(pricePerHour > 0) THEN Revert     \* "Price must be greater than 0"
    ELSE LET id == m.resourceCounter + 1
         IN  Did([m EXCEPT !.resourceCounter = id,
                           !.resources[id] = MarketResource(id, sender, cpu, ram,
                                                            storage, pricePerHour)],
                 c, Event("ResourceListed", id))

\* bookResource without its "Resource is not active" requirement.
RM_bookResource_AnyResource(m, c, sender, resourceId, duration, value) ==
    LET resource == m.resources[resourceId]
        totalCost == resource.pricePerHour * duration
        platformFeeAmount == (totalCost * m.platformFee) \div 1000
        providerAmount == totalCost - platformFeeAmount
        escrow == EM_createEscrow(c, Market, resource.provider, duration,
                                  Uint(providerAmount))
    IN  IF ~(duration > 0) THEN Revert
        ELSE IF ~(value >= totalCost) THEN Revert
        ELSE IF ~escrow.ok THEN Revert
        ELSE LET id == m.bookingCounter + 1
             IN  Did([m EXCEPT !.bookingCounter = id,
                               !.bookings[id] =
                                   MarketBooking(resourceId, sender, duration,
                                                 escrow.chain.escrowCounter)],
                     escrow.chain, Event("ResourceBooked", resourceId))

\* The marketplace is msg.sender of the createEscrow call it makes.  The
\* platform fee is then transferred to owner(), an account that accepts it.
RM_bookResource(m, c, sender, resourceId, duration, value) ==
    LET resource == m.resources[resourceId]
        totalCost == resource.pricePerHour * duration
        platformFeeAmount == (totalCost * m.platformFee) \div 1000
        providerAmount == totalCost - platformFeeAmount
        escrow == EM_createEscrow(c, Market, resource.provider, duration,
                                  Uint(providerAmount))
    IN  IF ~resource.isActive THEN Revert       \* "Resource is not active"
        ELSE IF ~(duration > 0) THEN Revert     \* "Duration must be greater than 0"
        ELSE IF ~(value >= totalCost) THEN Revert   \* "Insufficient payment"
        ELSE IF ~escrow.ok THEN Revert
        ELSE LET id == m.bookingCounter + 1
             IN  Did([m EXCEPT !.bookingCounter = id,
                               !.bookings[id] =
                                   MarketBooking(resourceId, sender, duration,
                                                 escrow.chain.escrowCounter)],
                     escrow.chain, Event("ResourceBooked", resourceId))

RM_completeBooking(m, c, sender, bookingId) ==
    LET booking == m.bookings[bookingId]
        release == EM_releaseEscrow(c, Market, booking.escrowId)
    IN  IF ~booking.isActive THEN Revert        \* "Booking is not active"
        ELSE IF sender # booking.consumer
             THEN Revert                        \* "Only consumer can complete booking"
        ELSE IF ~release.ok THEN Revert
        ELSE Did([m EXCEPT !.bookings[bookingId].isActive = FALSE],
                 release.chain, Event("BookingCompleted", bookingId))

RM_updateResourcePrice(m, c, sender, resourceId, newPrice) ==
    IF sender # m.resources[resourceId].provider
    THEN Revert                                 \* "Only provider can update price"
    ELSE IF ~(newPrice > 0) THEN Revert         \* "Price must be greater than 0"
    ELSE Did([m EXCEPT !.resources[resourceId].pricePerHour = newPrice],
             c, Event("ResourceUpdated", resourceId))

RM_deactivateResource(m, c, sender, resourceId) ==
    IF sender # m.resources[resourceId].provider
    THEN Revert                                 \* "Only provider can deactivate"
    ELSE Did([m EXCEPT !.resources[resourceId].isActive = FALSE],
             c, Event("ResourceUpdated", resourceId))

\* The largest fee updatePlatformFee accepts, on base 1000.
PlatformFeeCap == 50

\* onlyOwner, then "Fee cannot exceed 5%".  No event is emitted.
RM_updatePlatformFee(m, c, sender, newFee) ==
    IF sender # m.owner THEN Revert
    ELSE IF ~(newFee <= PlatformFeeCap) THEN Revert
    ELSE [ok |-> TRUE, market |-> [m EXCEPT !.platformFee = newFee], chain |-> c]

nonMarketVars == <<bookings, reqs, releaseCalls, refundCalls, reportCalls,
                   analytics, health, clients, users>>

MarketTransact(op, after) ==
    /\ IF after.ok
       THEN /\ market' = after.market
            /\ SetChain(after.chain)
            /\ Respond(op, NoId, "ok")
       ELSE /\ UNCHANGED <<market, chainVars>>
            /\ Respond(op, NoId, "revert")
    /\ UNCHANGED nonMarketVars

Market_ListResource(sender, cpu, ram, storage, pricePerHour) ==
    /\ market.resourceCounter < MaxListed
    /\ MarketTransact("listResource",
                      RM_listResource(market, Chain, sender, cpu, ram, storage,
                                      pricePerHour))

Market_BookResource(sender, resourceId, duration, value) ==
    /\ escrowCounter < MaxEscrows
    /\ MarketTransact("bookResource",
                      RM_bookResource(market, Chain, sender, resourceId, duration,
                                      value))

Market_CompleteBooking(sender, bookingId) ==
    MarketTransact("completeBooking",
                   RM_completeBooking(market, Chain, sender, bookingId))

Market_UpdateResourcePrice(sender, resourceId, newPrice) ==
    MarketTransact("updateResourcePrice",
                   RM_updateResourcePrice(market, Chain, sender, resourceId, newPrice))

Market_DeactivateResource(sender, resourceId) ==
    MarketTransact("deactivateResource",
                   RM_deactivateResource(market, Chain, sender, resourceId))

Market_UpdatePlatformFee(sender, newFee) ==
    MarketTransact("updatePlatformFee",
                   RM_updatePlatformFee(market, Chain, sender, newFee))

----------------------------------------------------------------------------
(* The service and the contract together *)

InitWith(owners) ==
    /\ bookings = <<>>
    /\ reqs = [s \in Slots |-> Idle]
    /\ resp = [op |-> None, outcome |-> None]
    /\ escrows = [i \in EscrowIds |-> ZeroEscrow]
    /\ escrowCounter = 0
    /\ owner \in owners
    /\ payouts = [i \in EscrowIds |-> <<>>]
    /\ releaseCalls = [i \in EscrowIds |-> 0]
    /\ refundCalls = [i \in EscrowIds |-> 0]
    /\ reportCalls = 0
    /\ analytics = <<>>
    /\ health = NoHealth
    /\ clients = [c \in ClientIds |-> NewClient]
    /\ market = NewMarket
    /\ users = [w \in UserWallets |-> Undefined]

\* The owner of EscrowManager is its deployer (the server wallet) until
\* deploy.js hands it to the ResourceMarketplace contract.
Init == InitWith({Wallet, Market})

\* The contract as deployed by the server wallet.
InitDeployed == InitWith({Wallet})

\* Spec: the lifecycle of a booking.  Requests are handled one at a time, on
\* one window of an active and an inactive resource.
LifecycleDtos == Dtos({1, 3}, UnitWindow, {1})

Next ==
    \/ \E dto \in LifecycleDtos : Create_Check(1, dto, MaxLive)
    \/ \E ok \in BOOLEAN : Create_Escrow(1, ok)
    \/ Create_Save(1)
    \/ \E id \in RequestIds, st \in Statuses : UpdateStatus_Start(1, id, st)
    \/ UpdateStatus_Inner(1)
    \/ \E ok \in BOOLEAN : UpdateStatus_Chain(1, ok)
    \/ \E id \in RequestIds, a \in Addresses : CancelBooking_Check(1, id, a)
    \/ \E id \in RequestIds : CompleteBooking_Check(1, id)
    \/ \E id \in RequestIds, st \in Statuses : Update(1, id, st)

Spec == Init /\ [][Next]_vars

\* SpecStatus: the lifecycle driven by updateStatus, cancelBooking and
\* completeBooking only.
NextStatus ==
    \/ \E dto \in LifecycleDtos : Create_Check(1, dto, MaxLive)
    \/ \E ok \in BOOLEAN : Create_Escrow(1, ok)
    \/ Create_Save(1)
    \/ \E id \in RequestIds, st \in Statuses : UpdateStatus_Start(1, id, st)
    \/ UpdateStatus_Inner(1)
    \/ \E ok \in BOOLEAN : UpdateStatus_Chain(1, ok)
    \/ \E id \in RequestIds, a \in Addresses : CancelBooking_Check(1, id, a)
    \/ \E id \in RequestIds : CompleteBooking_Check(1, id)

SpecStatus == Init /\ [][NextStatus]_vars

\* SpecCancel: bookings that are activated and cancelled by cancelBooking.
NextCancel ==
    \/ \E dto \in LifecycleDtos : Create_Check(1, dto, MaxLive)
    \/ \E ok \in BOOLEAN : Create_Escrow(1, ok)
    \/ Create_Save(1)
    \/ \E id \in RequestIds : UpdateStatus_Start(1, id, "active")
    \/ UpdateStatus_Inner(1)
    \/ \E ok \in BOOLEAN : UpdateStatus_Chain(1, ok)
    \/ \E id \in RequestIds, a \in Addresses : CancelBooking_Check(1, id, a)

SpecCancel == Init /\ [][NextCancel]_vars

\* SpecCancelGuard: bookings put in any status by update, and cancelBooking.
\* Requests carry a bookingId.
GuardDtos == {d \in LifecycleDtos : d.bookingId # NoId}

NextCancelGuard ==
    \/ \E dto \in GuardDtos : Create_Check(1, dto, MaxLive)
    \/ \E ok \in BOOLEAN : Create_Escrow(1, ok)
    \/ Create_Save(1)
    \/ \E id \in RequestIds, st \in Statuses : Update(1, id, st)
    \/ UpdateStatus_Inner(1)
    \/ \E ok \in BOOLEAN : UpdateStatus_Chain(1, ok)
    \/ \E id \in RequestIds, a \in Addresses : CancelBooking_Check(1, id, a)

SpecCancelGuard == Init /\ [][NextCancelGuard]_vars

\* SpecCompleteGuard: bookings put in any status by update, and completeBooking.
NextCompleteGuard ==
    \/ \E dto \in GuardDtos : Create_Check(1, dto, MaxLive)
    \/ \E ok \in BOOLEAN : Create_Escrow(1, ok)
    \/ Create_Save(1)
    \/ \E id \in RequestIds, st \in Statuses : Update(1, id, st)
    \/ UpdateStatus_Inner(1)
    \/ \E ok \in BOOLEAN : UpdateStatus_Chain(1, ok)
    \/ \E id \in RequestIds : CompleteBooking_Check(1, id)

SpecCompleteGuard == Init /\ [][NextCompleteGuard]_vars

\* SpecMetrics: bookings of a resource with an uptime target and of one
\* without, and the metrics pushed for them.  Requests carry a bookingId.
MetricDtos == {d \in Dtos({1, 2}, UnitWindow, {1}) : d.bookingId # NoId}

\* BookingMetricsDto: usage at and above the limit of 90, uptime below and at
\* the target, and fields left out.
MetricsInputs ==
    {Metrics(c, r, u) : c \in {90, 91}, r \in {Undefined, 91}, u \in {Undefined, 98, 99}}

NextMetrics ==
    \/ \E dto \in MetricDtos : Create_Check(1, dto, MaxLive)
    \/ \E ok \in BOOLEAN : Create_Escrow(1, ok)
    \/ Create_Save(1)
    \/ \E id \in RequestIds, m \in MetricsInputs : UpdateMetrics_Write(1, id, m)
    \/ UpdateMetrics_Inc(1)
    \/ \E ok \in BOOLEAN : UpdateMetrics_Report(1, ok)
    \/ \E mined \in BOOLEAN : UpdateMetrics_Confirm(1, mined)

SpecMetrics == InitDeployed /\ [][NextMetrics]_vars

\* SpecMetricsLive: the same, with the steps of the service itself taken when
\* they can be: the database answers and the transaction is sent or fails to
\* be.  Nothing makes the chain confirm a transaction.
SpecMetricsLive ==
    /\ SpecMetrics
    /\ WF_vars(UpdateMetrics_Inc(1))
    /\ WF_vars(\E ok \in BOOLEAN : UpdateMetrics_Report(1, ok))

\* SpecSnapshots: snapshots of one booking taken at any time of the range,
\* by the poll and push sources, handed over in any order.
SnapshotInputs == {MetricsAt(c, Undefined, Undefined, t) : c \in {50, 91}, t \in Times}

NextSnapshots ==
    \/ \E dto \in GuardDtos : Create_Check(1, dto, MaxLive)
    \/ \E ok \in BOOLEAN : Create_Escrow(1, ok)
    \/ Create_Save(1)
    \/ \E id \in RequestIds, m \in SnapshotInputs : UpdateMetrics_Write(1, id, m)
    \/ UpdateMetrics_Inc(1)
    \/ \E ok \in BOOLEAN : UpdateMetrics_Report(1, ok)
    \/ \E mined \in BOOLEAN : UpdateMetrics_Confirm(1, mined)

SpecSnapshots == InitDeployed /\ [][NextSnapshots]_vars

\* SpecFrame: every operation on a booking that exists.  Callers activate a
\* pending booking and dispute an active one; bookings are cancelled,
\* completed, given metrics that breach the CPU limit, and reviewed.
FrameMetrics == {Metrics(91, Undefined, 99)}

NextFrame ==
    \/ \E dto \in GuardDtos : Create_Check(1, dto, MaxLive)
    \/ Create_Escrow(1, TRUE)
    \/ Create_Save(1)
    \/ \E id \in RequestIds :
          /\ Exists(id) => bookings[id].status = "pending"
          /\ UpdateStatus_Start(1, id, "active")
    \/ \E id \in RequestIds :
          /\ Exists(id) => bookings[id].status = "active"
          /\ Update(1, id, "disputed")
    \/ UpdateStatus_Inner(1)
    \/ UpdateStatus_Chain(1, TRUE)
    \/ \E id \in RequestIds : CancelBooking_Check(1, id, Consumer)
    \/ \E id \in RequestIds : CompleteBooking_Check(1, id)
    \/ \E id \in RequestIds, m \in FrameMetrics : UpdateMetrics_Write(1, id, m)
    \/ UpdateMetrics_Inc(1)
    \/ UpdateMetrics_Report(1, TRUE)
    \/ UpdateMetrics_Confirm(1, TRUE)
    \/ \E id \in RequestIds :
          /\ Exists(id) => bookings[id].reviews = <<>>
          /\ AddReview_Write(1, id, 5)
    \/ AddReview_Reputation(1)
    \/ User_Create(Provider1)

SpecFrame == InitDeployed /\ [][NextFrame]_vars

\* SpecAlerts: samples of two resources, calm and breaching, and the
\* resolution of alerts.
AlertSamples == {Sample(50, 50, 50, 100), Sample(96, 50, 50, 100), Sample(80, 85, 50, 98)}

AlertIds == 1..(MaxDocs + 1)

NextAlerts ==
    \/ \E r \in {1, 2}, m \in AlertSamples : CollectMetrics(r, m)
    \/ \E a \in AlertIds : ResolveAlert(a)

SpecAlerts == InitDeployed /\ [][NextAlerts]_vars

\* SpecThresholds: samples of one resource with each of the four metrics
\* inside its thresholds, at its warning threshold and at its critical one.
ThresholdSamples ==
    {Sample(50, 50, 50, 100), Sample(80, 50, 50, 100), Sample(95, 85, 50, 100),
     Sample(50, 95, 50, 98), Sample(50, 50, 90, 94), Sample(50, 50, 95, 100)}

NextThresholds ==
    \/ \E m \in ThresholdSamples : CollectMetrics(1, m)
    \/ \E a \in AlertIds : ResolveAlert(a)

SpecThresholds == InitDeployed /\ [][NextThresholds]_vars

\* SpecHealth: samples at the ends and in the middle of 0..100, and the health
\* of a resource with samples, of one without, and of one that does not exist.
HealthSamples ==
    {Sample(0, 0, 0, 100), Sample(100, 100, 100, 0), Sample(100, 0, 50, 99),
     Sample(20, 20, 20, 80)}

NextHealth ==
    \/ \E m \in HealthSamples : CollectMetrics(1, m)
    \/ \E r \in {1, 2, 4} : GetResourceHealth(r)

SpecHealth == InitDeployed /\ [][NextHealth]_vars

\* SpecScores: determineStatus applied to every score of 0..100 in steps of a
\* quarter, the scores of one document; the result is kept as the health of
\* resource 1.
ScoreQuarters == 0..400

DetermineStatus_Of(quarters) ==
    /\ health' = [resourceId |-> 1,
                  status |-> DetermineStatus(Score(quarters, 4)),
                  score |-> Score(quarters, 4)]
    /\ Respond("determineStatus", NoId, "ok")
    /\ UNCHANGED <<analytics, nonMonitorVars>>

NextScores == \E quarters \in ScoreQuarters : DetermineStatus_Of(quarters)

SpecScores == InitDeployed /\ [][NextScores]_vars

\* SpecGateway: sockets that connect with every kind of handshake and send
\* every kind of subscription.
NextGateway ==
    \/ \E c \in ClientIds, t \in Tokens, ok \in BOOLEAN : Gateway_HandleConnection(c, t, ok)
    \/ \E c \in ClientIds, r \in {1, 4} : Gateway_HandleResourceSubscription(c, r)
    \/ \E c \in ClientIds : Gateway_HandleAlertsSubscription(c)
    \/ \E c \in ClientIds : Gateway_HandleMetricsRequest(c, 1, Sample(96, 50, 50, 100))
    \/ Gateway_BroadcastAlert

SpecGateway == InitDeployed /\ [][NextGateway]_vars

\* SpecWindows: bookings on every window of an active resource, next to a
\* second active resource and an inactive one that are asked for the whole of
\* Times, with the status changes that make no chain call.  Requests are
\* handled one at a time and carry a bookingId.
WindowDtos ==
    {d \in Dtos({1}, Windows, {1}) \cup Dtos({2, 3}, {<<0, MaxTime>>}, {1}) :
        d.bookingId # NoId}

NextWindows ==
    \/ \E dto \in WindowDtos : Create_Check(1, dto, MaxBookings)
    \/ \E ok \in BOOLEAN : Create_Escrow(1, ok)
    \/ Create_Save(1)
    \/ \E id \in RequestIds, st \in {"pending", "active", "disputed"} :
          UpdateStatus_Start(1, id, st)
    \/ \E id \in RequestIds, st \in Statuses : Update(1, id, st)

SpecWindows == InitDeployed /\ [][NextWindows]_vars

\* SpecConflict: the same bookings, made active, completed or disputed by
\* update alone.
NextConflict ==
    \/ \E dto \in WindowDtos : Create_Check(1, dto, MaxBookings)
    \/ \E ok \in BOOLEAN : Create_Escrow(1, ok)
    \/ Create_Save(1)
    \/ \E id \in RequestIds, st \in {"active", "completed", "disputed"} :
          Update(1, id, st)

SpecConflict == InitDeployed /\ [][NextConflict]_vars

\* SpecCost: bookings on every price and duration, and their release.
\* Requests carry a bookingId.
CostDtos == {d \in Dtos({1, 2}, UnitWindow, Durations) : d.bookingId # NoId}

NextCost ==
    \/ \E dto \in CostDtos : Create_Check(1, dto, MaxBookings)
    \/ \E ok \in BOOLEAN : Create_Escrow(1, ok)
    \/ Create_Save(1)
    \/ \E id \in RequestIds : UpdateStatus_Start(1, id, "completed")
    \/ \E ok \in BOOLEAN : UpdateStatus_Chain(1, ok)

SpecCost == InitDeployed /\ [][NextCost]_vars

\* SpecRace: create requests handled concurrently, interleaved at their awaits.
RaceDtos == Dtos({1}, Windows, {1})

NextRace ==
    \/ \E s \in Slots, dto \in RaceDtos : Create_Check(s, dto, MaxBookings)
    \/ \E s \in Slots, ok \in BOOLEAN : Create_Escrow(s, ok)
    \/ \E s \in Slots : Create_Save(s)

SpecRace == InitDeployed /\ [][NextRace]_vars

\* SpecCounter: updateMetrics requests for the bookings of resource 1 handled
\* concurrently, interleaved at their awaits, with snapshots that count no,
\* one and two violations, and bookings activated by update meanwhile.
CounterMetrics ==
    {Metrics(50, Undefined, Undefined), Metrics(91, Undefined, Undefined),
     Metrics(91, 91, Undefined)}

NextCounter ==
    \/ \E dto \in GuardDtos : Create_Check(1, dto, MaxLive)
    \/ Create_Escrow(1, TRUE)
    \/ Create_Save(1)
    \/ \E s \in Slots, id \in RequestIds, m \in CounterMetrics :
          UpdateMetrics_Write(s, id, m)
    \/ \E s \in Slots : UpdateMetrics_Inc(s)
    \/ \E s \in Slots, ok \in BOOLEAN : UpdateMetrics_Report(s, ok)
    \/ \E s \in Slots : UpdateMetrics_Confirm(s, TRUE)
    \/ \E id \in RequestIds :
          /\ Exists(id) => bookings[id].status = "pending"
          /\ Update(1, id, "active")

\* SpecDuel: a cancelBooking request (slot 1) and a completeBooking request
\* (slot 2) handled concurrently, interleaved at their awaits, on bookings
\* that were activated; nothing else changes a status.  updateStatus is also
\* called, with any status, for ids that no booking has.
NextDuel ==
    \/ \E dto \in GuardDtos : Create_Check(1, dto, MaxLive)
    \/ Create_Escrow(1, TRUE)
    \/ Create_Save(1)
    \/ \E id \in RequestIds :
          /\ Exists(id) => bookings[id].status = "pending"
          /\ UpdateStatus_Start(1, id, "active")
    \/ \E id \in RequestIds, st \in Statuses :
          /\ ~Exists(id)
          /\ UpdateStatus_Start(1, id, st)
    \/ \E id \in RequestIds : CancelBooking_Check(1, id, Consumer)
    \/ \E id \in RequestIds : CompleteBooking_Check(2, id)
    \/ \E s \in {1, 2} : UpdateStatus_Inner(s)
    \/ \E s \in {1, 2}, ok \in BOOLEAN : UpdateStatus_Chain(s, ok)

SpecDuel == InitDeployed /\ [][NextDuel]_vars

SpecCounter == InitDeployed /\ [][NextCounter]_vars

\* SpecReviews: bookings of resource 1 reviewed one review after the other,
\* with every rating, for a provider with and without a user document whose
\* reputation is moved close to its limits through PUT users/reputation.
\* The find and the save of updateReputation are one step: no other request
\* of this specification falls between them.
ReputationChanges == {-90, 890}

NextReviews ==
    \/ \E dto \in GuardDtos : Create_Check(1, dto, MaxLive)
    \/ Create_Escrow(1, TRUE)
    \/ Create_Save(1)
    \/ \E id \in RequestIds, rating \in Ratings : AddReview_Write(1, id, rating)
    \/ AddReview_Reputation(1)
    \/ User_Create(Provider1)
    \/ \E change \in ReputationChanges :
          /\ reqs[1] = Idle
          /\ User_UpdateReputation(Provider1, change)

SpecReviews == InitDeployed /\ [][NextReviews]_vars

----------------------------------------------------------------------------
(* SpecEscrow: the EscrowManager contract called directly, by any caller.   *)

Callers == {Wallet, Market, Stranger}

\* msg.value of a direct call: nothing, or some wei.
Values == {<<>>, <<5>>}

Transact(op, after) ==
    IF after.ok
    THEN /\ SetChain(after.chain)
         /\ Respond(op, NoId, "ok")
    ELSE /\ UNCHANGED chainVars
         /\ Respond(op, NoId, "revert")

Escrow_Create(sender, provider, duration, value) ==
    /\ escrowCounter < MaxEscrows
    /\ Transact("createEscrow", EM_createEscrow(Chain, sender, provider, duration, value))
    /\ UNCHANGED <<bookings, reqs, releaseCalls, refundCalls>>
    /\ UNCHANGED otherVars

Escrow_Release(sender, id) ==
    /\ Transact("releaseEscrow", EM_releaseEscrow(Chain, sender, id))
    /\ UNCHANGED <<bookings, reqs, releaseCalls, refundCalls>>
    /\ UNCHANGED otherVars

Escrow_Refund(sender, id) ==
    /\ Transact("refundEscrow", EM_refundEscrow(Chain, sender, id))
    /\ UNCHANGED <<bookings, reqs, releaseCalls, refundCalls>>
    /\ UNCHANGED otherVars

\* Ownable.transferOwnership, as deploy.js calls it.
Ownable_transferOwnership(sender, newOwner) ==
    /\ IF sender = owner /\ newOwner # ZeroAddress
       THEN /\ owner' = newOwner
            /\ Respond("transferOwnership", NoId, "ok")
       ELSE /\ UNCHANGED owner
            /\ Respond("transferOwnership", NoId, "revert")
    /\ UNCHANGED <<bookings, reqs, releaseCalls, refundCalls,
                   escrows, escrowCounter, payouts>>
    /\ UNCHANGED otherVars

NextEscrow ==
    \/ \E a \in Callers, p \in {Provider1, ZeroAddress}, d \in {0, 1}, v \in Values :
          Escrow_Create(a, p, d, v)
    \/ \E a \in Callers, id \in EscrowIds : Escrow_Release(a, id)
    \/ \E a \in Callers, id \in EscrowIds : Escrow_Refund(a, id)
    \/ \E a \in Callers, n \in {Wallet, Market} : Ownable_transferOwnership(a, n)

SpecEscrow == InitDeployed /\ [][NextEscrow]_vars

----------------------------------------------------------------------------
(* SpecMarket: the ResourceMarketplace contract called by a provider and a  *)
(* consumer, on an EscrowManager owned by its deployer or handed over to   *)
(* the marketplace.                                                        *)

MarketCallers == {Provider1, Consumer}

Prices == {0, 40}

\* Hours booked: none, or two.
BookedHours == {0, 2}

\* msg.value of bookResource: one wei short of two hours at 40, or the cost.
Payments == {79, 80}

\* updatePlatformFee is called by the deployer and by another account, with
\* the initial fee, 5%, just above 5%, 100% and just above 100%.
FeeCallers == {Wallet, Consumer}

Fees == {25, 50, 51, 1000, 1001}

NextMarket ==
    \/ \E cpu \in {0, 4}, p \in Prices :
          Market_ListResource(Provider1, cpu, 8, 100, p)
    \/ \E a \in MarketCallers, r \in MarketResourceIds, d \in BookedHours, v \in Payments :
          Market_BookResource(a, r, d, v)
    \/ \E a \in MarketCallers, id \in EscrowIds : Market_CompleteBooking(a, id)
    \/ \E a \in MarketCallers, r \in MarketResourceIds, p \in {0, 20} :
          Market_UpdateResourcePrice(a, r, p)
    \/ \E a \in MarketCallers, r \in MarketResourceIds : Market_DeactivateResource(a, r)
    \/ \E a \in FeeCallers, f \in Fees : Market_UpdatePlatformFee(a, f)

SpecMarket == Init /\ [][NextMarket]_vars

\* SpecBook: listing, repricing, deactivating and booking, without
\* completions, on the EscrowManager as deployed.
NextBook ==
    \/ \E cpu \in {0, 4}, p \in Prices :
          Market_ListResource(Provider1, cpu, 8, 100, p)
    \/ \E a \in MarketCallers, r \in MarketResourceIds, d \in BookedHours, v \in Payments :
          Market_BookResource(a, r, d, v)
    \/ \E a \in MarketCallers, r \in MarketResourceIds, p \in {0, 20} :
          Market_UpdateResourcePrice(a, r, p)
    \/ \E a \in MarketCallers, r \in MarketResourceIds : Market_DeactivateResource(a, r)

SpecBook == InitDeployed /\ [][NextBook]_vars

----------------------------------------------------------------------------
(* Properties *)

Quiescent == \A s \in Slots : reqs[s] = Idle

Live(b) == b.status \in {"pending", "active"}

\* The half-open windows [startTime, endTime) of two bookings share an instant.
WindowsOverlap(a, b) ==
    \E t \in Times : /\ a.startTime <= t /\ t < a.endTime
                     /\ b.startTime <= t /\ t < b.endTime

\* C1: no two pending or active bookings of the same resource have
\* overlapping windows [startTime, endTime), whatever operations were made.
C1_NoOverlappingLiveBookings ==
    \A i, j \in DOMAIN bookings :
        (i < j /\ bookings[i].resourceId = bookings[j].resourceId
               /\ Live(bookings[i]) /\ Live(bookings[j]))
            => ~WindowsOverlap(bookings[i], bookings[j])

\* C5: of create requests for overlapping windows of one resource that run
\* concurrently, at most one persists a booking.
C5_OverlappingCreatesPersistOnce ==
    \A i, j \in DOMAIN bookings :
        (i # j /\ bookings[i].resourceId = bookings[j].resourceId)
            => \A t \in Times :
                  ~(/\ bookings[i].startTime <= t /\ t < bookings[i].endTime
                    /\ bookings[j].startTime <= t /\ t < bookings[j].endTime)

\* The conflict condition as the claim C6 words it.
C6_Blocks(b, dto) ==
    /\ b.resourceId = dto.resourceId
    /\ b.status = "pending" \/ b.status = "active"
    /\ b.startTime < dto.endTime /\ b.endTime > dto.startTime

\* C6: create (on an active resource) is rejected as already booked exactly
\* when a pending or active booking of the resource has
\* existingStart < newEnd and existingEnd > newStart; otherwise it goes on to
\* open the escrow.  (A request that goes on blocks on no booking; a request
\* answered "already booked" blocks on one; no request that blocks goes on.)
C6_RejectsExactlyOnConflict ==
    [][/\ (reqs[1] = Idle /\ reqs'[1] # Idle /\ reqs'[1].op = "create")
             => /\ ~\E i \in DOMAIN bookings : C6_Blocks(bookings[i], reqs'[1].dto)
                /\ reqs'[1].pc = "escrow"
       /\ (reqs[1] = Idle /\ reqs'[1] = Idle
             /\ resp' = [op |-> "create", outcome |-> "AlreadyBooked"])
             => /\ bookings' = bookings
                /\ \A dto \in WindowDtos :
                      Create_Check(1, dto, MaxBookings)
                      => \E i \in DOMAIN bookings : C6_Blocks(bookings[i], dto)
       /\ (reqs[1] = Idle /\ reqs'[1] = Idle /\ resp'.op = "create"
             /\ resp'.outcome # "AlreadyBooked")
             => \A dto \in WindowDtos :
                   (Resource(dto.resourceId).isActive
                       /\ \E i \in DOMAIN bookings : C6_Blocks(bookings[i], dto))
                   => ~Create_Check(1, dto, MaxBookings)]_vars

\* C6 witness: a request was rejected as already booked while the resource had
\* a live booking and a booking that is no longer live.
C6_Witness ==
    /\ resp = [op |-> "create", outcome |-> "AlreadyBooked"]
    /\ \E i, j \in DOMAIN bookings :
          /\ Live(bookings[i]) /\ ~Live(bookings[j])
          /\ bookings[i].resourceId = bookings[j].resourceId

\* C9: no escrow is both released and refunded.
C9_NeverReleasedAndRefunded ==
    \A id \in EscrowIds : ~(escrows[id].isReleased /\ escrows[id].isRefunded)

\* C9 witness: one escrow was released, another refunded, and a further call
\* on one of them was reverted.
C9_Witness ==
    /\ \E i, j \in EscrowIds :
          /\ escrows[i].isReleased /\ escrows[i].amount # <<>>
          /\ escrows[j].isRefunded /\ escrows[j].amount # <<>>
    /\ resp.outcome = "revert"
    /\ resp.op \in {"releaseEscrow", "refundEscrow"}

\* C2: once its request is answered, a completed booking has had exactly one
\* releaseEscrow call and no refundEscrow call issued for its escrow, and a
\* cancelled booking exactly one refundEscrow call and no releaseEscrow call.
C2_OneEscrowCallPerTerminalBooking ==
    Quiescent =>
        \A i \in DOMAIN bookings :
            LET e == bookings[i].escrowId
            IN  /\ bookings[i].status = "completed"
                      => (releaseCalls[e] = 1 /\ refundCalls[e] = 0)
                /\ bookings[i].status = "cancelled"
                      => (refundCalls[e] = 1 /\ releaseCalls[e] = 0)
                /\ ~(releaseCalls[e] > 0 /\ refundCalls[e] > 0)

LegalTransitions ==
    {<<"pending", "active">>, <<"active", "completed">>, <<"active", "disputed">>,
     <<"pending", "cancelled">>, <<"active", "cancelled">>}

\* C3: a booking's status changes only along pending->active,
\* active->completed, active->disputed, pending->cancelled and
\* active->cancelled; a request for any other change of status is answered
\* with an error.
C3_OnlyLegalTransitions ==
    [][\A i \in DOMAIN bookings :
          /\ bookings'[i].status # bookings[i].status
                => <<bookings[i].status, bookings'[i].status>> \in LegalTransitions
          /\ \A st \in Statuses :
                (UpdateStatus_Start(1, i, st) /\ st # bookings[i].status
                    /\ <<bookings[i].status, st>> \notin LegalTransitions)
                => /\ resp'.op = "updateStatus"
                   /\ resp'.outcome \notin {"ok", None}]_vars

\* C4: when the releaseEscrow or refundEscrow call of updateStatus fails, the
\* booking is not left with the status that was requested.
C4_FailedChainCallLeavesStatus ==
    [][\A s \in Slots :
          (reqs[s].pc = "chain" /\ UpdateStatus_Chain(s, FALSE))
          => bookings'[reqs[s].id].status # reqs[s].status]_vars

\* C7: a createEscrow call that fails ends the create request with that
\* failure and persists nothing; a booking is inserted only by a request
\* whose createEscrow call has returned the id of an escrow that exists.
C7_NoBookingWithoutEscrow ==
    [][/\ \A s \in Slots :
             (reqs[s].op = "create" /\ reqs[s].pc = "escrow"
                 /\ reqs'[s] # reqs[s] /\ escrowCounter' = escrowCounter)
             => /\ bookings' = bookings
                /\ reqs'[s] = Idle
                /\ resp' = [op |-> "create", outcome |-> "UpstreamFailure"]
       /\ bookings' # bookings /\ Len(bookings') > Len(bookings)
             => \E s \in Slots :
                   /\ reqs[s].op = "create" /\ reqs[s].pc = "save"
                   /\ bookings'[Len(bookings')].escrowId = reqs[s].escrowId
                   /\ reqs[s].escrowId \in 1..escrowCounter
                   /\ escrows[reqs[s].escrowId].provider
                         = bookings'[Len(bookings')].provider]_vars

\* C7 witness: a create request was ended by a failed createEscrow call while a
\* booking made by an earlier request is in the collection.
C7_Witness ==
    /\ resp = [op |-> "create", outcome |-> "UpstreamFailure"]
    /\ Len(bookings) = 1
    /\ escrowCounter = 1
    /\ Quiescent

\* C8: the amount of the escrow of every booking is the booking's totalCost
\* (wei against the decimal string in ether).
C8_EscrowAmountIsTotalCost ==
    \A i \in DOMAIN bookings :
        WeiValue(escrows[bookings[i].escrowId].amount) = DecValue(bookings[i].totalCost)

\* C8 witness: a booking whose cost is the inexact product 0.30000000000000004
\* was released, next to a booking of cost 0.0001 whose escrow is funded.
C8_Witness ==
    \E i, j \in DOMAIN bookings :
        /\ Len(bookings[i].totalCost.frac) = 17
        /\ escrows[bookings[i].escrowId].isReleased
        /\ bookings[j].totalCost = Dec(<<0>>, <<0, 0, 0, 1>>)
        /\ escrows[bookings[j].escrowId].amount # <<>>
        /\ ~escrows[bookings[j].escrowId].isReleased

\* C10: cancelBooking by an address that is neither the consumer nor the
\* provider of the booking is answered with an error, changes no booking and
\* issues no refundEscrow call.
C10_StrangerCannotCancel ==
    [][\A id \in DOMAIN bookings, a \in Addresses :
          (CancelBooking_Check(1, id, a)
              /\ a # bookings[id].consumer /\ a # bookings[id].provider)
          => /\ resp'.op = "cancelBooking"
             /\ resp'.outcome \in {"NotAuthorized", "CannotBeCancelled"}
             /\ bookings' = bookings
             /\ refundCalls' = refundCalls
             /\ reqs' = reqs /\ Quiescent]_vars

\* C10 witness: a cancellation was refused as not authorized and the booking
\* is still pending or active.
C10_Witness ==
    /\ resp = [op |-> "cancelBooking", outcome |-> "NotAuthorized"]
    /\ \E i \in DOMAIN bookings : Live(bookings[i])
    /\ \A e \in EscrowIds : refundCalls[e] = 0

\* C11: cancelBooking goes on to cancel only a booking it reads as pending or
\* active; called for a completed, cancelled or disputed booking it is
\* answered with an error, changes no booking and issues no refundEscrow call.
C11_CancelOnlyPendingOrActive ==
    [][reqs[1] = Idle =>
          /\ reqs'[1].op = "cancelBooking"
                => bookings[reqs'[1].id].status \in {"pending", "active"}
          /\ \A id \in DOMAIN bookings, a \in Addresses :
                (bookings[id].status \in {"completed", "cancelled", "disputed"}
                    /\ CancelBooking_Check(1, id, a))
                => /\ resp' = [op |-> "cancelBooking", outcome |-> "CannotBeCancelled"]
                   /\ bookings' = bookings
                   /\ refundCalls' = refundCalls
                   /\ reqs' = reqs]_vars

\* C11 witness: a cancellation by the booking's consumer was refused because
\* the booking is disputed, and no refund was ever asked for.
C11_Witness ==
    /\ resp = [op |-> "cancelBooking", outcome |-> "CannotBeCancelled"]
    /\ \E i \in DOMAIN bookings : bookings[i].status = "disputed"
    /\ \A e \in EscrowIds : refundCalls[e] = 0
    /\ Quiescent

\* C12: completeBooking goes on to complete only a booking it reads as
\* active; called for a booking in any other status it is answered with an
\* error, changes no booking and issues no releaseEscrow call.
C12_CompleteOnlyActive ==
    [][reqs[1] = Idle =>
          /\ reqs'[1].op = "completeBooking"
                => bookings[reqs'[1].id].status = "active"
          /\ \A id \in DOMAIN bookings :
                (bookings[id].status # "active" /\ CompleteBooking_Check(1, id))
                => /\ resp' = [op |-> "completeBooking", outcome |-> "NotActive"]
                   /\ bookings' = bookings
                   /\ releaseCalls' = releaseCalls
                   /\ reqs' = reqs]_vars

\* C12 witness: a completion was refused for a pending booking, and no release
\* was ever asked for.
C12_Witness ==
    /\ resp = [op |-> "completeBooking", outcome |-> "NotActive"]
    /\ \E i \in DOMAIN bookings : bookings[i].status = "pending"
    /\ \A e \in EscrowIds : releaseCalls[e] = 0
    /\ Quiescent

\* C13: the escrow of every booking records the booking's consumer as its
\* consumer and the booking's provider as its provider, and every payment out
\* of it goes to the booking's provider (release) or consumer (refund).
C13_EscrowPartiesAreBookingParties ==
    \A i \in DOMAIN bookings :
        LET b == bookings[i]
            e == escrows[b.escrowId]
        IN  /\ e.consumer = b.consumer
            /\ e.provider = b.provider
            /\ \A k \in DOMAIN payouts[b.escrowId] :
                  payouts[b.escrowId][k].to \in {b.consumer, b.provider}

\* The number of violation reasons as the claim C14 words them: one for an
\* uptime below sla.uptimeTarget, one for cpuUsage > 90, one for ramUsage > 90.
C14_Count(m, sla) ==
    (IF m.uptime # Undefined /\ sla.uptimeTarget # Undefined
        /\ m.uptime < sla.uptimeTarget THEN 1 ELSE 0)
    + (IF m.cpuUsage # Undefined /\ m.cpuUsage > 90 THEN 1 ELSE 0)
    + (IF m.ramUsage # Undefined /\ m.ramUsage > 90 THEN 1 ELSE 0)

\* C14: updateMetrics finds one violation reason for an uptime below
\* sla.uptimeTarget, one for cpuUsage > 90 and one for ramUsage > 90; with no
\* reason it is answered at once, sla.violations and the reportSLAViolation
\* calls unchanged; with reasons, sla.violations is increased by their number
\* and one reportSLAViolation call is issued before the answer.
C14_ViolationsCountedAndReported ==
    [][/\ (reqs[1] = Idle /\ (reqs'[1] # Idle \/ resp'.op = "updateMetrics")) =>
             \A id \in DOMAIN bookings, m \in MetricsInputs :
                UpdateMetrics_Write(1, id, m)
                => LET n == C14_Count(m, bookings[id].sla)
                   IN  /\ bookings'[id].sla = bookings[id].sla
                       /\ reportCalls' = reportCalls
                       /\ IF n = 0
                          THEN /\ reqs'[1] = Idle
                               /\ resp' = [op |-> "updateMetrics", outcome |-> "ok"]
                          ELSE /\ reqs'[1].pc = "inc"
                               /\ Len(reqs'[1].violations) = n
       /\ reqs[1].pc = "inc" =>
             /\ bookings'[reqs[1].id].sla.violations
                   = bookings[reqs[1].id].sla.violations + Len(reqs[1].violations)
             /\ reqs'[1].pc = "report" /\ reportCalls' = reportCalls
       /\ reqs[1].pc = "report" =>
             /\ reportCalls' = reportCalls + 1
             /\ bookings' = bookings
             /\ reqs'[1] = Idle \/ reqs'[1].pc = "wait"
       /\ reqs[1].pc = "wait" =>
             /\ reportCalls' = reportCalls
             /\ bookings' = bookings
             /\ reqs'[1] = Idle /\ resp'.op = "updateMetrics"]_vars

\* C14 witness: a snapshot with three reasons was counted and reported, for a
\* booking that had a violation counted before.
C14_Witness ==
    /\ Quiescent
    /\ resp = [op |-> "updateMetrics", outcome |-> "ok"]
    /\ reportCalls = 2
    /\ \E i \in DOMAIN bookings :
          /\ bookings[i].metrics = Metrics(91, 91, 98)
          /\ bookings[i].sla.violations = 4

Alerts == {i \in DOMAIN analytics : analytics[i].type = "alert"}

C17_ResolveIsIdempotent ==
    [][\A a \in AlertIds :
          (ResolveAlert(a)
              /\ \E i \in Alerts : analytics[i].data.id = a /\ analytics[i].data.resolved)
          => /\ analytics' = analytics
             /\ resp' = [op |-> "resolveAlert", outcome |-> "ok"]]_vars

\* C17 witness: an alert is resolved next to an unresolved one, and the last
\* request was a resolveAlert.
C17_Witness ==
    /\ resp = [op |-> "resolveAlert", outcome |-> "ok"]
    /\ \E i, j \in Alerts :
          analytics[i].data.resolved /\ ~analytics[j].data.resolved

\* C15: the score getResourceHealth returns lies in [0, 100]; for a resource
\* without recent documents it is 0 and the status is offline.
C15_HealthScoreInRange ==
    /\ 0 <= health.score.num
    /\ health.score.num <= 100 * health.score.den
    /\ (health.resourceId # NoId /\ RecentMetrics(health.resourceId) = <<>>)
          => (health.score.num = 0 /\ health.status = "offline")

\* C15 witness: a resource whose samples and alerts were read has the top
\* score 100 over more than one document.
C15_Witness ==
    /\ health.resourceId = 1
    /\ health.score.den > 4
    /\ health.score.num = 100 * health.score.den
    /\ health.status = "healthy"

\* C18: a socket the gateway gave no userId is in no room and was sent no
\* health, alert or metrics data, and once its connection was handled it was
\* sent an explicit rejection.
C18_UnauthenticatedRejectedExplicitly ==
    \A c \in ClientIds :
        clients[c].userId = None =>
            /\ clients[c].rooms = {}
            /\ clients[c].received \cap {"resource:health", "alerts:list",
                                         "alert:new", "metrics:data"} = {}
            /\ clients[c].state = "disconnected" => "error" \in clients[c].received


\* C19: completeBooking on the marketplace contract, called for an active
\* booking by the provider of the booked resource, succeeds, emits
\* BookingCompleted, releases the booking's escrow and leaves the booking
\* inactive.
C19_ProviderCompletesBooking ==
    [][\A id \in EscrowIds :
          LET booking == market.bookings[id]
          IN  (/\ booking.isActive
               /\ Market_CompleteBooking(market.resources[booking.resourceId].provider,
                                         id))
                  => /\ resp'.outcome = "ok"
                     /\ Event("BookingCompleted", id) \in market'.events
                     /\ escrows'[booking.escrowId].isReleased
                     /\ ~market'.bookings[id].isActive]_vars

\* C20: bookResource reverts when the resource is not active or when the
\* payment is less than pricePerHour x duration, and the reverted call
\* creates neither a booking nor an escrow.
C20_RejectedBookingCreatesNothing ==
    [][\A a \in MarketCallers, r \in MarketResourceIds, d \in BookedHours, v \in Payments :
          LET resource == market.resources[r]
          IN  (/\ ~resource.isActive \/ v < resource.pricePerHour * d
               /\ Market_BookResource(a, r, d, v))
                  => /\ resp'.outcome = "revert"
                     /\ market'.bookingCounter = market.bookingCounter
                     /\ market'.bookings = market.bookings
                     /\ escrowCounter' = escrowCounter
                     /\ escrows' = escrows]_vars

\* A booking was made on resource 1, the provider then deactivated the
\* resource, and a further bookResource was reverted.
C20_Witness ==
    /\ resp = [op |-> "bookResource", outcome |-> "revert"]
    /\ market.bookingCounter = 1
    /\ escrowCounter = 1
    /\ market.resources[1].provider = Provider1
    /\ ~market.resources[1].isActive


\* C21: updatePlatformFee by a non-owner, or with a fee above the maximum,
\* reverts and leaves platformFee unchanged; the owner's fee of 50 is accepted,
\* and the owner's fee is rejected only when it exceeds 1000.
C21_FeeRejectedOnlyAbove1000 ==
    [][\A a \in FeeCallers, f \in Fees :
          Market_UpdatePlatformFee(a, f)
              => IF a # market.owner \/ f > 1000
                 THEN /\ resp'.outcome = "revert"
                      /\ market'.platformFee = market.platformFee
                 ELSE /\ resp'.outcome = "ok"
                      /\ market'.platformFee = f]_vars


\* C22: once a booking's status is completed or cancelled, no later operation
\* changes its status.
C22_TerminalStatusIsPermanent ==
    [][\A i \in DOMAIN bookings :
          bookings[i].status \in {"completed", "cancelled"}
              => bookings'[i].status = bookings[i].status]_vars


\* The transfers of a non-zero amount paid out for an escrow id.
C23_Paid(id) == SelectSeq(payouts[id], LAMBDA t : t.amount # <<>>)

\* C23: a releaseEscrow or refundEscrow call on an escrow that is already
\* released or refunded reverts without transferring funds, and what is paid
\* out of an escrow over any sequence of calls never exceeds its amount: at
\* most one payment, of the escrow's amount.
C23_NoDoublePayment ==
    [][/\ \A id \in EscrowIds :
             (payouts'[id] # payouts[id] \/ escrows'[id] # escrows[id])
                 => /\ Len(C23_Paid(id)') <= 1
                    /\ Len(C23_Paid(id)') = 1
                          => C23_Paid(id)'[1].amount = escrows'[id].amount
       /\ resp'.op \in {"releaseEscrow", "refundEscrow"}
             => \A a \in Callers, id \in EscrowIds :
                   (/\ escrows[id].isReleased \/ escrows[id].isRefunded
                    /\ Escrow_Release(a, id) \/ Escrow_Refund(a, id))
                       => /\ resp'.outcome = "revert"
                          /\ payouts' = payouts
                          /\ escrows' = escrows]_vars

\* C23 witness: both escrows were paid out once, one to its provider and one
\* back to its consumer, and a further refundEscrow call was reverted.
C23_Witness ==
    /\ escrows[1].isReleased /\ Len(C23_Paid(1)) = 1
    /\ escrows[2].isRefunded /\ Len(C23_Paid(2)) = 1
    /\ resp = [op |-> "refundEscrow", outcome |-> "revert"]


\* C24: after create finishes, every escrow that was opened is referenced by
\* exactly one persisted booking.
C24_NoOrphanEscrow ==
    Quiescent =>
        \A e \in 1..escrowCounter :
            Cardinality({i \in DOMAIN bookings : bookings[i].escrowId = e}) = 1


\* C25: a create request for an inactive resource, or for a window that a
\* pending or active booking of the resource overlaps, is rejected without a
\* createEscrow call and without a booking being persisted.
C25_RejectedCreateTouchesNothing ==
    [][(reqs[1] = Idle /\ (reqs'[1] # Idle \/ resp'.op = "create")) =>
          \A dto \in WindowDtos :
              (/\ \/ ~Resource(dto.resourceId).isActive
                  \/ \E i \in DOMAIN bookings : C6_Blocks(bookings[i], dto)
               /\ Create_Check(1, dto, MaxBookings))
                  => /\ reqs'[1] = Idle
                     /\ resp'.outcome \in {"ResourceNotAvailable", "AlreadyBooked"}
                     /\ bookings' = bookings
                     /\ escrowCounter' = escrowCounter
                     /\ escrows' = escrows]_vars

\* C25 witness: with a booking and its escrow in place, a request for an
\* inactive resource was rejected.
C25_Witness ==
    /\ resp = [op |-> "create", outcome |-> "ResourceNotAvailable"]
    /\ Len(bookings) >= 1
    /\ escrowCounter = Len(bookings)
    /\ Quiescent


\* C26: a booking's escrowId is the id of the escrow opened at its creation,
\* and no later operation changes or clears it.
C26_EscrowIdIsImmutable ==
    [][/\ \A i \in DOMAIN bookings : bookings'[i].escrowId = bookings[i].escrowId
       /\ Len(bookings') > Len(bookings)
             => /\ bookings'[Len(bookings')].escrowId = reqs[1].escrowId
                /\ reqs[1].escrowId \in 1..escrowCounter]_vars

\* C26 witness: a booking that was given metrics, cancelled and then
\* reviewed still names its escrow, which was refunded.
C26_Witness ==
    \E i \in DOMAIN bookings :
        /\ bookings[i].status = "cancelled"
        /\ bookings[i].metrics # NoMetrics
        /\ Len(bookings[i].reviews) > 0
        /\ bookings[i].escrowId # 0
        /\ escrows[bookings[i].escrowId].isRefunded
        /\ resp = [op |-> "addReview", outcome |-> "ok"]


RECURSIVE C27_Value(_)
C27_Value(digits) ==
    IF digits = <<>> THEN 0
    ELSE 10 * C27_Value(SubSeq(digits, 1, Len(digits) - 1)) + digits[Len(digits)]

\* The catalog's price strings as decimals.
C27_Price(pricePerHour) ==
    CASE pricePerHour = "0.1" -> Dec(<<0>>, <<1>>)
      [] pricePerHour = "0.0001" -> Dec(<<0>>, <<0, 0, 0, 1>>)

\* pricePerHour x duration in exact decimal arithmetic, in canonical form.
C27_Product(pricePerHour, duration) ==
    LET d == C27_Price(pricePerHour)
        k == Len(d.frac)
        digits == Uint(C27_Value(d.int \o d.frac) * duration)
        padded == Zeros(k + 1 - Len(digits)) \o digits
        n == Len(padded)
    IN  DecValue(Dec(SubSeq(padded, 1, n - k), SubSeq(padded, n - k + 1, n)))

\* C27: a booking's totalCost is its resource's pricePerHour multiplied by its
\* duration, and no later operation changes it.
C27_TotalCostIsPriceTimesDuration ==
    /\ [](\A i \in DOMAIN bookings :
             DecValue(bookings[i].totalCost)
                 = C27_Product(Resource(bookings[i].resourceId).pricePerHour,
                               bookings[i].duration))
    /\ [][\A i \in DOMAIN bookings :
             bookings'[i].totalCost = bookings[i].totalCost]_vars


\* C28: a failure of the reportSLAViolation call does not make updateMetrics
\* fail: every updateMetrics that counted violations is answered with the
\* updated booking, and the snapshot and the count stay as written.
C28_ReportFailureIsSwallowed ==
    [][(reqs[1].op = "updateMetrics" /\ reqs'[1] = Idle)
          => /\ resp' = [op |-> "updateMetrics", outcome |-> "ok"]
             /\ bookings' = bookings]_vars

\* C29: updateMetrics returns to its caller without waiting for the
\* confirmation of the reportSLAViolation transaction: a request that is
\* being handled is answered, even if no confirmation ever arrives.
C29_ReturnsWithoutConfirmation ==
    (reqs[1].op = "updateMetrics") ~> (reqs[1] = Idle)


\* C30: the stored metrics snapshot is the one with the newest timestamp: an
\* update carrying an older timestamp never overwrites a newer snapshot.
C30_NewestSnapshotWins ==
    [][\A i \in DOMAIN bookings :
          (/\ bookings[i].metrics.timestamp # Undefined
           /\ bookings'[i].metrics.timestamp # Undefined)
              => bookings'[i].metrics.timestamp >= bookings[i].metrics.timestamp]_vars

\* The requests that take their $inc step on booking i in the step at hand.
C31_Incrementing(i) ==
    {s \in Slots : /\ reqs[s].op = "updateMetrics" /\ reqs[s].pc = "inc"
                   /\ reqs[s].id = i /\ reqs'[s].pc = "report"}

\* C31: sla.violations of a booking never decreases, and no increment of
\* concurrent updateMetrics requests is lost: every step changes the counter
\* by exactly the violation count of the request that takes its increment in
\* that step, whatever the other requests in flight have read or written.
C31_ViolationsOnlyGrow ==
    [][\A i \in DOMAIN bookings :
          /\ bookings'[i].sla.violations >= bookings[i].sla.violations
          /\ Cardinality(C31_Incrementing(i)) <= 1
          /\ bookings'[i].sla.violations =
                bookings[i].sla.violations
                  + (IF C31_Incrementing(i) = {} THEN 0
                     ELSE Len(reqs[CHOOSE s \in C31_Incrementing(i) : TRUE].violations))]_vars

\* Two requests for one booking have both counted, one and two violations.
C31_Witness ==
    /\ reqs[1].pc = "report" /\ reqs[2].pc = "report"
    /\ reqs[1].id = reqs[2].id
    /\ Len(reqs[1].violations) # Len(reqs[2].violations)
    /\ bookings[reqs[1].id].status = "active"
    /\ bookings[reqs[1].id].sla.violations = 3

\* The level the threshold table gives a metric of sample m, None inside the
\* thresholds.
C32_Level(metric, m) ==
    CASE metric = "cpu" ->
            IF m.cpuUsage >= CpuCritical THEN "critical"
            ELSE IF m.cpuUsage >= CpuWarning THEN "warning" ELSE None
      [] metric = "memory" ->
            IF m.memoryUsage >= MemoryCritical THEN "critical"
            ELSE IF m.memoryUsage >= MemoryWarning THEN "warning" ELSE None
      [] metric = "disk" ->
            IF m.diskUsage >= DiskCritical THEN "critical"
            ELSE IF m.diskUsage >= DiskWarning THEN "warning" ELSE None
      [] metric = "availability" ->
            IF m.availability < AvailabilityCritical THEN "critical"
            ELSE IF m.availability < AvailabilityWarning THEN "warning" ELSE None

\* C32: an ingestion evaluates the CPU, memory, disk and availability
\* thresholds independently: for each of the four metrics it raises exactly
\* one alert, at the level of the threshold table, when the metric is at or
\* beyond a threshold, and none when the metric is inside its thresholds.
C32_OneAlertPerBreachedMetric ==
    [][\A m \in ThresholdSamples :
          CollectMetrics(1, m)
          => LET new == {i \in DOMAIN analytics' \ DOMAIN analytics :
                            analytics'[i].type = "alert"}
             IN  \A metric \in {"cpu", "memory", "disk", "availability"} :
                    LET raised == {i \in new : analytics'[i].data.metric = metric}
                    IN  IF C32_Level(metric, m) = None
                        THEN raised = {}
                        ELSE /\ Cardinality(raised) = 1
                             /\ \A i \in raised :
                                   analytics'[i].data.severity = C32_Level(metric, m)]_vars

\* C33: every alert that exists has a type among performance, cost,
\* availability and security and a severity among low, medium, high and
\* critical, the alerts raised by the thresholds of an ingestion included.
C33_AlertTypeAndSeverityInRange ==
    \A i \in Alerts :
       /\ analytics[i].data.type \in {"performance", "cost", "availability", "security"}
       /\ analytics[i].data.severity \in {"low", "medium", "high", "critical"}

\* C34: an alert is created unresolved; afterwards nothing of it changes but
\* its resolved flag, from false to true and never back, and only in a step
\* of resolveAlert for its id.
C34_AlertOnlyEverResolved ==
    [][(analytics' # analytics)
          => /\ \A i \in DOMAIN analytics' \ DOMAIN analytics :
                   analytics'[i].type = "alert" => ~analytics'[i].data.resolved
             /\ \A i \in Alerts :
                   \/ analytics'[i] = analytics[i]
                   \/ /\ ~analytics[i].data.resolved
                      /\ analytics'[i] = [analytics[i] EXCEPT !.data.resolved = TRUE]
                      /\ ResolveAlert(analytics[i].data.id)]_vars

\* An alert was resolved, then ingestions raised further alerts and left the
\* resolved one as it was.
C34_Witness ==
    /\ resp = [op |-> "collectMetrics", outcome |-> "ok"]
    /\ \E i, j \in Alerts :
          /\ i < j
          /\ analytics[i].data.resolved
          /\ ~analytics[j].data.resolved
          /\ analytics[j].data.severity = "critical"

\* C35: the status derived from a health score is healthy from 80 on, warning
\* from 60 to below 80, critical from 20 to below 60 and offline below 20:
\* every score of 0..100 has exactly one of the four.
C35_StatusRanges ==
    health.status # None
       => LET n == health.score.num
              d == health.score.den
          IN  /\ 0 <= n /\ n <= 100 * d
              /\ health.status \in {"healthy", "warning", "critical", "offline"}
              /\ health.status = "healthy" <=> n >= 80 * d
              /\ health.status = "warning" <=> (60 * d <= n /\ n < 80 * d)
              /\ health.status = "critical" <=> (20 * d <= n /\ n < 60 * d)
              /\ health.status = "offline" <=> n < 20 * d

\* The score of exactly 80 was given its status.
C35_Witness ==
    /\ resp = [op |-> "determineStatus", outcome |-> "ok"]
    /\ health.score = Score(320, 4)
    /\ health.status = "healthy"

\* The recent samples of a resource: its (at most RecentLimit) newest
\* documents that are metrics samples.
C36_RecentSamples(resourceId) ==
    LET docs == SelectSeq(analytics, LAMBDA d : d.resourceId = resourceId
                                                  /\ d.type = "metrics")
        n == Len(docs)
    IN  IF n <= RecentLimit THEN docs ELSE SubSeq(docs, n - RecentLimit + 1, n)

\* ((100 - avgCpu) + (100 - avgMemory) + (100 - avgDisk) + avgAvailability) / 4
\* over the samples, as a fraction.
C36_Formula(samples) ==
    LET n == Len(samples)
    IN  Score((100 * n - SumField(samples, "cpuUsage"))
                + (100 * n - SumField(samples, "memoryUsage"))
                + (100 * n - SumField(samples, "diskUsage"))
                + SumField(samples, "availability"),
              4 * n)

\* C36: for a resource with recent samples, the health score getResourceHealth
\* returns is ((100 - avgCpu) + (100 - avgMemory) + (100 - avgDisk)
\* + avgAvailability) / 4, each average taken over those samples.
C36_ScoreIsMeanOfSampleScores ==
    [][\A r \in Resources :
          (GetResourceHealth(r) /\ C36_RecentSamples(r) # <<>>)
          => health'.score.num * C36_Formula(C36_RecentSamples(r)).den
                = C36_Formula(C36_RecentSamples(r)).num * health'.score.den]_vars

\* A reputation brought back into the range of 0 to 1000.
C37_InRange(x) == IF x < 0 THEN 0 ELSE IF x > 1000 THEN 1000 ELSE x

C38_TimesMatchStatus ==
    [][\A i \in DOMAIN bookings' :
          /\ bookings'[i].status = "completed" => bookings'[i].completionTime # NullDate
          /\ bookings'[i].status = "cancelled" => bookings'[i].cancellationTime # NullDate
          /\ (i \in DOMAIN bookings /\ bookings[i].cancellationTime = NullDate
                 /\ bookings'[i].cancellationTime # NullDate)
                => bookings'[i].status = "cancelled"
          /\ (i \in DOMAIN bookings /\ bookings[i].completionTime = NullDate
                 /\ bookings'[i].completionTime # NullDate)
                => bookings'[i].status = "completed"]_vars

\* C39: cancelBooking and completeBooking handled concurrently on one active
\* booking, their checks and writes interleaved in any order: at most one
\* escrow call is issued for the booking's escrow, a release or a refund and
\* never both, so at most one of the two requests goes through.
C39_OneEscrowCallInARace ==
    \A i \in DOMAIN bookings :
       LET e == bookings[i].escrowId
       IN  /\ releaseCalls[e] + refundCalls[e] <= 1
           /\ ~(releaseCalls[e] > 0 /\ refundCalls[e] > 0)

\* The step at hand is the entry of updateStatus, cancelBooking or
\* completeBooking for the id, answered or not.
C40_Called(op, id) ==
    CASE op = "updateStatus" -> \E st \in Statuses : UpdateStatus_Start(1, id, st)
      [] op = "cancelBooking" -> CancelBooking_Check(1, id, Consumer)
      [] op = "completeBooking" -> CompleteBooking_Check(2, id)

\* C40: updateStatus, cancelBooking and completeBooking called with an id that
\* no booking has are answered with a not-found error at once; no booking
\* changes and no releaseEscrow or refundEscrow call is issued, in that step
\* or as a later step of the request.
C40_UnknownIdIsNotFound ==
    [][\A id \in RequestIds, op \in {"updateStatus", "cancelBooking", "completeBooking"} :
          (~Exists(id) /\ resp'.op = op /\ C40_Called(op, id))
          => /\ resp' = [op |-> op, outcome |-> "NotFound"]
             /\ bookings' = bookings
             /\ releaseCalls' = releaseCalls /\ refundCalls' = refundCalls
             /\ escrows' = escrows /\ payouts' = payouts
             /\ reqs' = reqs
             /\ reqs'[IF op = "completeBooking" THEN 2 ELSE 1] = Idle]_vars

\* completeBooking for an id without a booking was answered not-found while
\* another booking is active and untouched.
C40_Witness ==
    /\ resp = [op |-> "completeBooking", outcome |-> "NotFound"]
    /\ Len(bookings) >= 1
    /\ bookings[1].status = "active"
    /\ \A e \in EscrowIds : releaseCalls[e] = 0 /\ refundCalls[e] = 0

====
